---- MODULE Spec2Model ----
(***************************************************************************)
(* router-sync: the policy reconciliation engine (internal/router/         *)
(* manager.go) and the synchronization service that drives it              *)
(* (internal/sync), modelled against a kernel policy-routing rule table    *)
(* that is read through the text of `ip rule show` and changed through     *)
(* `ip rule add` / `ip rule del`.                                          *)
(*                                                                         *)
(* Values that a Go function keeps in local variables are handed on as     *)
(* operator parameters (the operators named ...With, ...At, ...From).      *)
(***************************************************************************)
EXTENDS Integers, Sequences, FiniteSets, TLC

(***************************************************************************)
(* Go string helpers (package strings / strconv), on TLA+ strings.         *)
(***************************************************************************)
HasPrefix(s, p) == Len(p) <= Len(s) /\ SubSeq(s, 1, Len(p)) = p

HasSuffix(s, p) == Len(p) <= Len(s) /\ SubSeq(s, Len(s) - Len(p) + 1, Len(s)) = p

TrimSuffix(s, p) == IF HasSuffix(s, p) THEN SubSeq(s, 1, Len(s) - Len(p)) ELSE s

Contains(s, sub) ==
    \E i \in 1..(Len(s) - Len(sub) + 1) : SubSeq(s, i, i + Len(sub) - 1) = sub

\* The least element of a set of numbers, 0 for the empty set.
Least(S) == IF S = {} THEN 0 ELSE CHOOSE i \in S : \A j \in S : i <= j

\* strings.IndexByte, 1-based; 0 when the byte does not occur.
IndexByte(s, c) == Least({i \in 1..Len(s) : SubSeq(s, i, i) = c})

\* strings.Split(s, sep) for a one-byte separator; i is the separator's index.
RECURSIVE SplitAt(_, _, _)
SplitAt(s, sep, i) ==
    IF i = 0 THEN <<s>>
    ELSE <<SubSeq(s, 1, i - 1)>>
             \o SplitAt(SubSeq(s, i + 1, Len(s)), sep,
                        IndexByte(SubSeq(s, i + 1, Len(s)), sep))

Split(s, sep) == SplitAt(s, sep, IndexByte(s, sep))

\* strings.Fields: the maximal runs of non-space bytes.
Fields(s) == SelectSeq(Split(s, " "), LAMBDA f : f # "")

DigitChars == <<"0", "1", "2", "3", "4", "5", "6", "7", "8", "9">>

AllDigits(s) ==
    /\ Len(s) > 0
    /\ \A i \in 1..Len(s) : \E d \in 1..10 : DigitChars[d] = SubSeq(s, i, i)

RECURSIVE DecVal(_)
DecVal(s) ==
    IF Len(s) = 0 THEN 0
    ELSE 10 * DecVal(SubSeq(s, 1, Len(s) - 1))
             + (CHOOSE d \in 1..10 : DigitChars[d] = SubSeq(s, Len(s), Len(s))) - 1

\* strconv.Atoi on the texts a rule listing holds (no sign): Go returns 0
\* together with the error.
Atoi(s) == IF AllDigits(s) THEN DecVal(s) ELSE 0

(***************************************************************************)
(* net.ParseIP / net.ParseCIDR / IP.String / IPNet.String for IPv4 text.   *)
(* An address is its four octets; <<>> is Go's nil.                        *)
(***************************************************************************)
\* One dotted-decimal field: 1..3 digits, no leading zero, at most 255.
OctetOk(f) ==
    /\ AllDigits(f)
    /\ Len(f) <= 3
    /\ (Len(f) > 1 => SubSeq(f, 1, 1) # "0")
    /\ DecVal(f) <= 255

OctetsOf(fs) ==
    IF Len(fs) = 4 /\ \A i \in 1..4 : OctetOk(fs[i])
    THEN [i \in 1..4 |-> DecVal(fs[i])]
    ELSE <<>>

ParseIP(s) == OctetsOf(Split(s, "."))

RECURSIVE Pow2(_)
Pow2(n) == IF n = 0 THEN 1 ELSE 2 * Pow2(n - 1)

\* The number of leading bits octet k keeps under a mask of `ones` bits.
KeptBits(ones, k) ==
    IF ones >= 8 * k THEN 8
    ELSE IF ones <= 8 * (k - 1) THEN 0
    ELSE ones - 8 * (k - 1)

\* IP.Mask(net.CIDRMask(ones, 32))
MaskIP(ip, ones) ==
    [k \in 1..4 |-> (ip[k] \div Pow2(8 - KeptBits(ones, k))) * Pow2(8 - KeptBits(ones, k))]

IPString(ip) ==
    ToString(ip[1]) \o "." \o ToString(ip[2]) \o "." \o ToString(ip[3]) \o "."
        \o ToString(ip[4])

\* An IPNet as the engine uses it: ip is srcNet.IP.String(), ones the prefix
\* length of srcNet.Mask, str is srcNet.String().
SrcNet(ip, ones) ==
    [ok |-> TRUE, ip |-> IPString(ip), ones |-> ones,
     str |-> IPString(ip) \o "/" \o ToString(ones)]

BadSrcNet == [ok |-> FALSE, ip |-> "", ones |-> 0, str |-> ""]

\* net.ParseCIDR on address text and mask text.
CIDRFrom(addr, mask) ==
    IF addr = <<>> \/ ~AllDigits(mask) \/ Len(mask) > 6 THEN BadSrcNet
    ELSE IF DecVal(mask) > 32 THEN BadSrcNet
    ELSE SrcNet(MaskIP(addr, DecVal(mask)), DecVal(mask))

CIDRAt(s, i) ==
    IF i = 0 THEN BadSrcNet
    ELSE CIDRFrom(ParseIP(SubSeq(s, 1, i - 1)), SubSeq(s, i + 1, Len(s)))

ParseCIDR(s) == CIDRAt(s, IndexByte(s, "/"))

(***************************************************************************)
(* Resolving a policy ID to its source network (the block repeated in      *)
(* SetupPolicy, RemovePolicy and cleanupStaleRules): CIDR first, then a    *)
(* single IP widened to /32.                                               *)
(***************************************************************************)
SingleIPNet(a) == IF a = <<>> THEN BadSrcNet ELSE SrcNet(a, 32)

SourceNetFrom(id, cidr) == IF cidr.ok THEN cidr ELSE SingleIPNet(ParseIP(id))

parseSourceNet(id) == SourceNetFrom(id, ParseCIDR(id))

(***************************************************************************)
(* RoutingPolicy.Validate.  Its net.ParseCIDR and net.ParseIP take IPv6    *)
(* text as well: groups of one to four hex digits between colons, eight of *)
(* them or fewer around one "::".                                          *)
(***************************************************************************)
HexChars == "0123456789abcdefABCDEF"

HexGroup(g) ==
    /\ Len(g) \in 1..4
    /\ \A i \in 1..Len(g) : \E h \in 1..Len(HexChars) : SubSeq(HexChars, h, h) = SubSeq(g, i, i)

\* The groups of one side of the "::".
GroupsOf(side) == IF side = "" THEN <<>> ELSE Split(side, ":")

AllHex(gs) == \A i \in 1..Len(gs) : HexGroup(gs[i])

\* i is the index of the first "::", 0 when there is none.
IPv6At(s, i) ==
    IF i = 0 THEN Len(Split(s, ":")) = 8 /\ AllHex(Split(s, ":"))
    ELSE /\ AllHex(GroupsOf(SubSeq(s, 1, i - 1)))
         /\ AllHex(GroupsOf(SubSeq(s, i + 2, Len(s))))
         /\ Len(GroupsOf(SubSeq(s, 1, i - 1))) + Len(GroupsOf(SubSeq(s, i + 2, Len(s)))) <= 7

IsIPv6(s) == IPv6At(s, Least({i \in 1..(Len(s) - 1) : SubSeq(s, i, i + 1) = "::"}))

\* net.ParseIP(s) != nil
IsIP(s) == ParseIP(s) # <<>> \/ IsIPv6(s)

\* net.ParseCIDR(s) returns no error; i is the index of the "/".
IsCIDRAt(s, i, mask) ==
    /\ i # 0
    /\ AllDigits(mask)
    /\ Len(mask) <= 6
    /\ \/ ParseIP(SubSeq(s, 1, i - 1)) # <<>> /\ DecVal(mask) <= 32
       \/ IsIPv6(SubSeq(s, 1, i - 1)) /\ DecVal(mask) <= 128

IsCIDR(s) == IsCIDRAt(s, IndexByte(s, "/"), SubSeq(s, IndexByte(s, "/") + 1, Len(s)))

\* RoutingPolicy.Validate: TRUE when it returns an error.
Validate(p) ==
    \/ p.ID = ""
    \/ p.Name = ""
    \/ p.ProviderID = ""
    \/ ~IsCIDR(p.ID) /\ ~IsIP(p.ID)

\* The bits of an IPv4 mask.
IPv4Bits == 32

\* A priority that grows with the prefix length.
priorityGrowing(srcNet) == 2000 + srcNet.ones

calculatePriority(srcNet) == 2000 + (IPv4Bits - srcNet.ones)

(***************************************************************************)
(* The universe the model is run on.                                       *)
(***************************************************************************)
\* Bounds of the model: the rules the table holds beside the kernel's own,
\* and the length of the policy list.
MaxRules == 3

MaxPolicies == 2

\* Policy IDs (source selectors): two hosts, the text of one a prefix of the
\* text of the other.
PolicyIDs == {"10.0.0.1", "10.0.0.10"}

\* Texts that are neither an IP address nor CIDR notation.
MalformedIDs == {"not-an-ip", "10.0.0.256", "10.0.0.1/33"}

\* The provider set handed to the engine; ProviderID "gone" resolves to none.
ProviderList == <<[ID |-> "isp1", TableID |-> 99], [ID |-> "isp2", TableID |-> 55]>>

ProviderIDs == {"isp1", "isp2", "gone"}

\* models.RoutingPolicy, the fields the engine reads.
Policies == [ID : PolicyIDs, ProviderID : ProviderIDs, Enabled : BOOLEAN]

\* The managed priority range.
ManagedLow == 2000

ManagedHigh == 2032

InManagedRange(priority) == priority >= ManagedLow /\ priority <= ManagedHigh

\* The source network of each policy ID of the universe, computed once.
SrcNetOf == [id \in PolicyIDs \cup MalformedIDs |-> parseSourceNet(id)]

(***************************************************************************)
(* The kernel's policy-routing rule table: a list of rules                 *)
(* [prio, ip, len, table] kept in priority order, a new rule going after   *)
(* the rules of the same priority.  `ip rule add` refuses a rule that is   *)
(* already there; `ip rule del` removes the first rule that matches the    *)
(* selector it was given and fails when none does.                         *)
(***************************************************************************)
Rule(prio, ip, len, table) == [prio |-> prio, ip |-> ip, len |-> len, table |-> table]

\* The rules every kernel starts with: local, main, default.
DefaultRules ==
    <<Rule(0, "0.0.0.0", 0, 255), Rule(32766, "0.0.0.0", 0, 254),
      Rule(32767, "0.0.0.0", 0, 253)>>

\* The rules the engine's `ip rule add` can produce for the universe above.
EngineRules ==
    {Rule(2000, "10.0.0.1", 32, 99), Rule(2000, "10.0.0.1", 32, 55),
     Rule(2000, "10.0.0.10", 32, 99), Rule(2000, "10.0.0.10", 32, 55)}

\* Rules only somebody else adds: an operator's rule outside the managed range
\* for a source a policy also names, and inside the range a rule for a network
\* and a `from all` rule.
ForeignRules ==
    {Rule(100, "10.0.0.1", 32, 7), Rule(2001, "10.0.0.10", 31, 7),
     Rule(2010, "0.0.0.0", 0, 7)}

\* What an administrator or another program may add beside the engine.
ExternalRules == EngineRules \cup ForeignRules

RuleUniverse ==
    EngineRules \cup ForeignRules
        \cup {Rule(0, "0.0.0.0", 0, 255), Rule(32766, "0.0.0.0", 0, 254),
              Rule(32767, "0.0.0.0", 0, 253)}

\* The table with rule r put in after the k rules that go before it.
InsertAt(rs, r, k) == SubSeq(rs, 1, k) \o <<r>> \o SubSeq(rs, k + 1, Len(rs))

\* ip rule add priority P table T from IP/LEN
IpRuleAdd(rs, prio, table, ip, len) ==
    IF \E i \in 1..Len(rs) : rs[i] = Rule(prio, ip, len, table)
    THEN [ok |-> FALSE, rules |-> rs]
    ELSE [ok |-> TRUE,
          rules |-> InsertAt(rs, Rule(prio, ip, len, table),
                             Cardinality({i \in 1..Len(rs) : rs[i].prio <= prio}))]

\* The table without its i-th rule; the command fails when i = 0.
DelAt(rs, i) ==
    IF i = 0 THEN [ok |-> FALSE, rules |-> rs]
    ELSE [ok |-> TRUE, rules |-> SubSeq(rs, 1, i - 1) \o SubSeq(rs, i + 1, Len(rs))]

\* ip rule del priority P
IpRuleDelPriority(rs, prio) == DelAt(rs, Least({i \in 1..Len(rs) : rs[i].prio = prio}))

\* ip rule del from IP/LEN
IpRuleDelFrom(rs, ip, len) ==
    DelAt(rs, Least({i \in 1..Len(rs) : rs[i].ip = ip /\ rs[i].len = len}))

(***************************************************************************)
(* `ip rule show`: one line "<prio>: from <src> lookup <table>" per rule.  *)
(* A /32 source is printed as the bare address, a source of length 0 as    *)
(* "all", the tables 255, 254, 253 by name.                                *)
(***************************************************************************)
SrcToken(r) ==
    IF r.len = 0 THEN "all"
    ELSE IF r.len = 32 THEN r.ip
    ELSE r.ip \o "/" \o ToString(r.len)

TableToken(t) ==
    IF t = 255 THEN "local"
    ELSE IF t = 254 THEN "main"
    ELSE IF t = 253 THEN "default"
    ELSE ToString(t)

RuleLine(r) ==
    ToString(r.prio) \o ": from " \o SrcToken(r) \o " lookup " \o TableToken(r.table)

LineOf == [r \in RuleUniverse |-> RuleLine(r)]

IpRuleShow(rs) == [i \in 1..Len(rs) |-> LineOf[rs[i]]]

AllLines == {RuleLine(r) : r \in RuleUniverse}

\* What the engine's parsing code computes from one line: parts is
\* strings.Fields(line), k the index of the first "from" that has a token
\* after it (0 if none).  priorityOk/priority is
\* strconv.Atoi(strings.TrimSuffix(parts[0], ":")); table is
\* strconv.Atoi(parts[len(parts)-1]); src is the token after "from" ("" if
\* none), ipPart is strings.Split(src, "/")[0]; fromLookup is
\* Contains(line, "from") && Contains(line, "lookup").
parseWith(line, parts, k) ==
    [nparts     |-> Len(parts),
     priorityOk |-> Len(parts) > 0 /\ AllDigits(TrimSuffix(parts[1], ":")),
     priority   |-> IF Len(parts) > 0 THEN Atoi(TrimSuffix(parts[1], ":")) ELSE 0,
     table      |-> IF Len(parts) > 0 THEN Atoi(parts[Len(parts)]) ELSE 0,
     src        |-> IF k = 0 THEN "" ELSE parts[k + 1],
     ipPart     |-> IF k = 0 THEN "" ELSE Split(parts[k + 1], "/")[1],
     slash      |-> k # 0 /\ Contains(parts[k + 1], "/"),
     reserved   |-> HasPrefix(line, "0:") \/ HasPrefix(line, "32766:")
                        \/ HasPrefix(line, "32767:"),
     fromLookup |-> Contains(line, "from") /\ Contains(line, "lookup")]

parseFields(line, parts) ==
    parseWith(line, parts,
              Least({i \in 1..Len(parts) : parts[i] = "from" /\ i + 1 <= Len(parts)}))

parseLine(line) == parseFields(line, Fields(line))

\* The same, computed once per line a listing can hold.
Parsed == [line \in AllLines |-> parseLine(line)]

SrcIPs == {parseSourceNet(id).ip : id \in PolicyIDs}

\* strings.Contains(line, fmt.Sprintf("from %s", srcIP)), computed once per line
\* and address.
FromMatches == [line \in AllLines, srcIP \in SrcIPs |-> Contains(line, "from " \o srcIP)]

(***************************************************************************)
(* The engine's commands.  An execution e = [rules, calls, fault] carries  *)
(* the kernel table, the mutation commands issued so far (rule add, rule   *)
(* delete, connection-tracking flush) and the command that the host fails  *)
(* to run during this operation ("none", "show", "add", "del", "flush"),   *)
(* or "readd" when another program puts back every rule the engine deletes *)
(* by source.                                                              *)
(***************************************************************************)
Call(cmd, prio, table, src, ok) ==
    [cmd |-> cmd, prio |-> prio, table |-> table, src |-> src, ok |-> ok]

\* The execution after a command with kernel result res was run.
Issue(e, res, cmd, prio, table, src) ==
    [e  |-> [rules |-> res.rules,
             calls |-> Append(e.calls, Call(cmd, prio, table, src, res.ok)),
             fault |-> e.fault],
     ok |-> res.ok]

Failed(e) == [ok |-> FALSE, rules |-> e.rules]

\* exec "ip rule del from <srcNet.String()>"
runDelFrom(e, srcNet) ==
    Issue(e, IF e.fault = "del" THEN Failed(e)
             ELSE IF e.fault = "readd"
             THEN [ok |-> IpRuleDelFrom(e.rules, srcNet.ip, srcNet.ones).ok,
                   rules |-> e.rules]
             ELSE IpRuleDelFrom(e.rules, srcNet.ip, srcNet.ones),
          "del_from", 0, 0, srcNet.str)

\* exec "ip rule del priority <priority>"
runDelPriority(e, priority) ==
    Issue(e, IF e.fault = "del" THEN Failed(e) ELSE IpRuleDelPriority(e.rules, priority),
          "del_priority", priority, 0, "")

\* exec "ip rule add priority <priority> table <tableID> from <srcNet.String()>"
runAdd(e, srcNet, priority, tableID) ==
    Issue(e, IF e.fault = "add" THEN Failed(e)
             ELSE IpRuleAdd(e.rules, priority, tableID, srcNet.ip, srcNet.ones),
          "add", priority, tableID, srcNet.str)

\* clearConntrack: exec "conntrack -D --src <srcNet.String()>"; the command's
\* failure is logged and nil returned.
clearConntrack(e, srcNet) ==
    [rules |-> e.rules,
     calls |-> Append(e.calls, Call("conntrack", 0, 0, srcNet.str, e.fault # "flush")),
     fault |-> e.fault]

\* The test both searches make of a line: it contains "from <srcIP>" and has
\* four fields or more.
LineMatches(line, srcIP) == FromMatches[line, srcIP] /\ Parsed[line].nparts >= 4

NoRule == [exists |-> FALSE, priority |-> 0, table |-> 0]

FoundAt(lines, i) ==
    IF i = 0 THEN NoRule
    ELSE [exists |-> TRUE, priority |-> Parsed[lines[i]].priority,
          table |-> Parsed[lines[i]].table]

FirstMatch(lines, srcIP) == Least({i \in 1..Len(lines) : LineMatches(lines[i], srcIP)})

checkRoutingRuleExistsIn(lines, srcNet) == FoundAt(lines, FirstMatch(lines, srcNet.ip))

checkRoutingRuleExists(e, srcNet) ==
    IF e.fault = "show" THEN NoRule
    ELSE checkRoutingRuleExistsIn(IpRuleShow(e.rules), srcNet)

maxAttempts == 10

\* One pass over a listing: a delete by source for each matching line until
\* one delete succeeds.
RECURSIVE removeScan(_, _, _, _)
RECURSIVE removeScanWith(_, _, _, _)
removeScan(e, lines, i, srcNet) ==
    IF i > Len(lines) THEN [e |-> e, foundRule |-> FALSE]
    ELSE IF LineMatches(lines[i], srcNet.ip)
    THEN removeScanWith(runDelFrom(e, srcNet), lines, i, srcNet)
    ELSE removeScan(e, lines, i + 1, srcNet)

removeScanWith(d, lines, i, srcNet) ==
    IF d.ok THEN [e |-> d.e, foundRule |-> TRUE]
    ELSE removeScan(d.e, lines, i + 1, srcNet)

RECURSIVE removeAttempts(_, _, _)
RECURSIVE removeAttemptsWith(_, _, _)
\* The loop with its condition written attempt <= maxAttempts.
removeAttemptsOneMore(e, srcNet, attempt) ==
    IF attempt > maxAttempts THEN [e |-> e, err |-> FALSE]
    ELSE IF e.fault = "show" THEN [e |-> e, err |-> TRUE]
    ELSE removeAttemptsWith(removeScan(e, IpRuleShow(e.rules), 1, srcNet), srcNet, attempt)

removeAttempts(e, srcNet, attempt) ==
    IF attempt >= maxAttempts THEN [e |-> e, err |-> FALSE]
    ELSE IF e.fault = "show" THEN [e |-> e, err |-> TRUE]
    ELSE removeAttemptsWith(removeScan(e, IpRuleShow(e.rules), 1, srcNet), srcNet, attempt)

removeAttemptsWith(s, srcNet, attempt) ==
    IF ~s.foundRule THEN [e |-> s.e, err |-> FALSE]
    ELSE removeAttempts(s.e, srcNet, attempt + 1)

removeAllRulesForSource(e, srcNet) == removeAttempts(e, srcNet, 0)

removeRoutingRuleWith(d, srcNet) ==
    IF ~d.ok THEN [e |-> d.e, err |-> TRUE]
    ELSE [e |-> clearConntrack(d.e, srcNet), err |-> FALSE]

removeRoutingRuleFrom(e, srcNet, found) ==
    IF ~found.exists THEN [e |-> e, err |-> FALSE]
    ELSE removeRoutingRuleWith(runDelPriority(e, found.priority), srcNet)

removeRoutingRule(e, srcNet) ==
    removeRoutingRuleFrom(e, srcNet, checkRoutingRuleExists(e, srcNet))

\* addRoutingRule returning after the add, without the flush.
addRoutingRuleUnflushed(a, srcNet) == [e |-> a.e, err |-> ~a.ok]

addRoutingRuleWith(a, srcNet) ==
    IF ~a.ok THEN [e |-> a.e, err |-> TRUE]
    ELSE [e |-> clearConntrack(a.e, srcNet), err |-> FALSE]

addRoutingRule(e, srcNet, tableID) ==
    addRoutingRuleWith(runAdd(e, srcNet, calculatePriority(srcNet), tableID), srcNet)

(***************************************************************************)
(* Manager.SetupProvider and Manager.RemoveProvider: the route commands    *)
(* are commented out, what is left logs and returns nil.                   *)
(***************************************************************************)
\* SetupProvider with its route installation in place: one route command.
setupProviderRouting(e, provider) ==
    [e |-> Issue(e, [ok |-> TRUE, rules |-> e.rules], "route_add", 100,
                 provider.TableID, "").e,
     err |-> FALSE]

SetupProvider(e, provider) == [e |-> e, err |-> FALSE]

RemoveProvider(e, provider) == [e |-> e, err |-> FALSE]

(***************************************************************************)
(* Manager.SetupPolicy and Manager.RemovePolicy.  Neither takes the        *)
(* engine's mutex.                                                         *)
(***************************************************************************)
\* The disabled branch without the check of the parsed ID.
disablePolicyUnchecked(e, srcNet) == [e |-> clearConntrack(e, srcNet), err |-> FALSE]

\* The disabled branch: remove every rule of the source, flush, return nil.
disablePolicyWith(e, srcNet) ==
    IF ~srcNet.ok THEN [e |-> e, err |-> TRUE]
    ELSE [e |-> clearConntrack(removeAllRulesForSource(e, srcNet).e, srcNet),
          err |-> FALSE]

\* After the old rules were removed because the table differs.
replacePolicyWith(rm, srcNet, tableID) ==
    IF rm.err THEN [e |-> rm.e, err |-> TRUE]
    ELSE addRoutingRule(rm.e, srcNet, tableID)

setupPolicyFrom(e, srcNet, tableID, found) ==
    IF ~found.exists THEN addRoutingRule(e, srcNet, tableID)
    ELSE IF found.table = tableID THEN [e |-> e, err |-> FALSE]
    ELSE replacePolicyWith(removeAllRulesForSource(e, srcNet), srcNet, tableID)

setupPolicyWith(e, srcNet, tableID) ==
    IF ~srcNet.ok THEN [e |-> e, err |-> TRUE]
    ELSE setupPolicyFrom(e, srcNet, tableID, checkRoutingRuleExists(e, srcNet))

SetupPolicy(e, policy, provider) ==
    IF ~policy.Enabled THEN disablePolicyWith(e, SrcNetOf[policy.ID])
    ELSE setupPolicyWith(e, SrcNetOf[policy.ID], provider.TableID)

removePolicyWith(e, srcNet) ==
    IF ~srcNet.ok THEN [e |-> e, err |-> TRUE]
    ELSE removeRoutingRule(e, srcNet)

RemovePolicy(e, policy, provider) == removePolicyWith(e, SrcNetOf[policy.ID])

(***************************************************************************)
(* The maintenance passes.  Each lists the rules once and then works from  *)
(* that listing, while every delete acts on the table as it then is.       *)
(***************************************************************************)
\* A parsed line the passes take as a managed rule: a priority that parses
\* and lies in [2000, 2032], "from" and "lookup" present, a token after "from".
ManagedParsed(p) ==
    /\ p.priorityOk
    /\ ~(p.priority < 2000 \/ p.priority > 2032)
    /\ p.fromLookup
    /\ p.src # ""

ManagedLine(line) == ManagedParsed(Parsed[line])

\* activeSources of cleanupStaleRules: the IP text of every policy of the list
\* whose ID parses, enabled or not.
activeSourcesOf(activePolicies) ==
    {SrcNetOf[activePolicies[i].ID].ip :
        i \in {j \in 1..Len(activePolicies) : SrcNetOf[activePolicies[j].ID].ok}}

staleParsed(p, activeSources) ==
    /\ ManagedParsed(p)
    /\ ~p.reserved
    /\ p.src \notin activeSources
    /\ ~(p.slash /\ p.ipPart \in activeSources)

staleLine(line, activeSources) == staleParsed(Parsed[line], activeSources)

RECURSIVE staleScan(_, _, _, _)
staleScan(e, lines, i, activeSources) ==
    IF i > Len(lines) THEN e
    ELSE IF staleLine(lines[i], activeSources)
    THEN staleScan(runDelPriority(e, Parsed[lines[i]].priority).e, lines, i + 1,
                   activeSources)
    ELSE staleScan(e, lines, i + 1, activeSources)

cleanupStaleRules(e, activePolicies) ==
    IF e.fault = "show" THEN [e |-> e, err |-> TRUE]
    ELSE [e |-> staleScan(e, IpRuleShow(e.rules), 1, activeSourcesOf(activePolicies)),
          err |-> FALSE]

\* A parsed line that goes into sourceRules[srcIP].
groupedParsed(p, srcIP) == ManagedParsed(p) /\ p.src = srcIP

\* sourceRules[srcIP] of cleanupDuplicateRules: the managed lines of one source
\* token, in listing order.
sourceRulesOf(lines, srcIP) == SelectSeq(lines, LAMBDA l : groupedParsed(Parsed[l], srcIP))

\* The keys of sourceRules.
sourceKeys(lines) == {Parsed[lines[i]].src : i \in {j \in 1..Len(lines) : ManagedLine(lines[j])}}

\* The keys with more than one line.
duplicatedSources(lines) ==
    {srcIP \in sourceKeys(lines) : Len(sourceRulesOf(lines, srcIP)) > 1}

\* Keep rules[0], delete the others by their priority.
RECURSIVE dropDuplicates(_, _, _)
dropDuplicates(e, rs, i) ==
    IF i > Len(rs) THEN e
    ELSE dropDuplicates(runDelPriority(e, Parsed[rs[i]].priority).e, rs, i + 1)

\* order is the order in which Go's map iteration yields the duplicated keys.
RECURSIVE dupScan(_, _, _, _)
dupScan(e, lines, order, k) ==
    IF k > Len(order) THEN e
    ELSE dupScan(dropDuplicates(e, sourceRulesOf(lines, order[k]), 2), lines, order, k + 1)

cleanupDuplicateRules(e, order) ==
    IF e.fault = "show" THEN [e |-> e, err |-> TRUE]
    ELSE [e |-> dupScan(e, IpRuleShow(e.rules), order, 1), err |-> FALSE]

\* The orders in which a map with key set S can be iterated.
Orders(S) ==
    {f \in [1..Cardinality(S) -> S] : \A i, j \in 1..Cardinality(S) : f[i] = f[j] => i = j}

mapOrders(e) ==
    IF e.fault = "show" THEN {<<>>} ELSE Orders(duplicatedSources(IpRuleShow(e.rules)))

\* validateSingleRulePerSource: the number of sources, "all" left out, that
\* the listing shows with more than one managed rule.  It changes nothing.
validateSingleRulePerSource(e) ==
    IF e.fault = "show" THEN 0
    ELSE Cardinality(duplicatedSources(IpRuleShow(e.rules)) \ {"all"})

RECURSIVE cleanupAllScan(_, _, _)
RECURSIVE cleanupAllScanWith(_, _, _, _)
cleanupAllScan(e, lines, i) ==
    IF i > Len(lines) THEN e
    ELSE cleanupAllScanWith(e, lines, i, Parsed[lines[i]])

cleanupAllScanWith(e, lines, i, p) ==
    IF p.priorityOk /\ p.priority >= 2000 /\ p.priority <= 2032
    THEN cleanupAllScan(runDelPriority(e, p.priority).e, lines, i + 1)
    ELSE cleanupAllScan(e, lines, i + 1)

CleanupAllRules(e) ==
    IF e.fault = "show" THEN [e |-> e, err |-> TRUE]
    ELSE [e |-> cleanupAllScan(e, IpRuleShow(e.rules), 1), err |-> FALSE]

(***************************************************************************)
(* Manager.SyncPolicies.                                                   *)
(***************************************************************************)
\* providerMap: the last provider of the list with this ID; 0 stands for a
\* key the map does not hold.
providerIndex(providers, id) ==
    IF \E i \in 1..Len(providers) : providers[i].ID = id
    THEN CHOOSE i \in 1..Len(providers) :
             /\ providers[i].ID = id
             /\ \A j \in 1..Len(providers) : providers[j].ID = id => j <= i
    ELSE 0

\* One round of the loop over the policies, k the provider's index: a policy
\* without provider is skipped, a failed SetupPolicy is logged.
setupRound(e, policy, providers, k) ==
    IF k # 0 THEN SetupPolicy(e, policy, providers[k]) ELSE [e |-> e, err |-> FALSE]

setupOne(e, policy, providers, k) == setupRound(e, policy, providers, k).e

\* The loop over the policies.
RECURSIVE setupAll(_, _, _, _)
RECURSIVE setupAllWith(_, _, _, _, _)
setupAll(e, ps, providers, i) ==
    IF i > Len(ps) THEN e
    ELSE setupAllWith(e, ps, providers, i, providerIndex(providers, ps[i].ProviderID))

setupAllWith(e, ps, providers, i, k) ==
    setupAll(setupOne(e, ps[i], providers, k), ps, providers, i + 1)

\* A SyncPolicies that reports the failure of a command.
syncPoliciesFailing(e) ==
    [e |-> e, err |-> e.fault # "none", violations |-> validateSingleRulePerSource(e)]

\* The errors of the passes were logged; validation, and `return nil`.
syncPoliciesWith(e) ==
    [e |-> e, err |-> FALSE, violations |-> validateSingleRulePerSource(e)]

SyncPolicies(e, ps, providers, order) ==
    syncPoliciesWith(
        cleanupStaleRules(setupAll(cleanupDuplicateRules(e, order).e, ps, providers, 1),
                          ps).e)

(***************************************************************************)
(* Specification Spec: the engine and its callers, one engine call per     *)
(* step, the service's tasks standing still.                               *)
(*   rules    the kernel rule table                                        *)
(*   policies the policy list of the store, which a full sync is handed    *)
(*   calls    the mutation commands the last engine call issued            *)
(*   op       the last step: its name, the policy it was about, the        *)
(*            command the host failed to run, and whether it repeats a     *)
(*            SyncPolicies that ran just before with the same lists        *)
(*   fn       the last application of one of the engine's pure functions   *)
(*            to an input: its name, the input and the result              *)
(***************************************************************************)
VARIABLES rules, policies, calls, op, fn

(***************************************************************************)
(* The synchronization service (internal/sync) around the engine.          *)
(*   pc       where each task stands                                       *)
(*   mu       the task that holds the engine's mutex m.mu, or "none"       *)
(*   cacheMu  the task that holds the service's cacheMu, or "none"         *)
(*   cache    s.providers and s.policies                                   *)
(*   local    the locals of a task's performFullSync: the listed policies  *)
(*            and providers and the index of SyncPolicies' loop; and, of   *)
(*            the pass so far, the rounds that called SetupPolicy, the     *)
(*            rounds whose SetupPolicy returned an error, and whether      *)
(*            cleanupStaleRules was called                                 *)
(*   updates  the policy updates the watcher has not yet delivered         *)
(*   cb       the locals of the policy handler: the operation, the key of  *)
(*            the update, the policy argument (nil or a policy), and what  *)
(*            checkRoutingRuleExists returned                              *)
(*   ctxDone  s.ctx is cancelled                                           *)
(*   wg       the counter of s.wg                                          *)
(*   providers the provider list of the store                              *)
(*   events   the number of writes the API has made to the store           *)
(***************************************************************************)
VARIABLES pc, mu, cacheMu, cache, local, updates, cb, ctxDone, wg, providers, events

svcVars ==
    <<pc, mu, cacheMu, cache, local, updates, cb, ctxDone, wg, providers, events>>

\* The store.
Store == <<policies, providers, events>>

vars == <<rules, policies, calls, op, fn, svcVars>>

\* The tasks that run performFullSync: Start's goroutine and periodicSync.
SyncTasks == {"start", "periodic"}

Tasks == SyncTasks \cup {"watchProviders", "watchPolicies", "main"}

NoLocal ==
    [policies |-> <<>>, providers |-> <<>>, i |-> 0, called |-> {}, errs |-> {},
     stale |-> FALSE]

\* The handler is not running.
NoCallback ==
    [op |-> "", key |-> "", nil |-> TRUE,
     policy |-> [ID |-> "", ProviderID |-> "", Enabled |-> FALSE], found |-> NoRule]

\* The service as NewService leaves it, main having issued `go Start()`.
SvcInit ==
    /\ pc = [t \in Tasks |-> IF t = "start" THEN "list" ELSE IF t = "main" THEN "run"
                                                          ELSE "off"]
    /\ mu = "none"
    /\ cacheMu = "none"
    /\ cache = [providers |-> <<>>, policies |-> <<>>]
    /\ local = [t \in SyncTasks |-> NoLocal]
    /\ updates = <<>>
    /\ cb = NoCallback
    /\ ctxDone = FALSE
    /\ wg = 0
    /\ providers = ProviderList
    /\ events = 0

NoPolicy == [ID |-> "", ProviderID |-> "", Enabled |-> FALSE]

Op(name, policy, fault, again) ==
    [name |-> name, policy |-> policy, fault |-> fault, again |-> again]

\* The commands the host may fail to run during one operation.
Faults == {"none"}

Exec(rs, fault) == [rules |-> rs, calls |-> <<>>, fault |-> fault]

\* No function applied yet.
NoFn == [name |-> "", arg |-> "", ones |-> 0, result |-> 0]

Init ==
    /\ rules = DefaultRules
    /\ policies = <<>>
    /\ calls = <<>>
    /\ op = Op("init", NoPolicy, "none", FALSE)
    /\ fn = NoFn
    /\ SvcInit

\* The step of an engine call that ended in execution e.
Done(e, name, policy, again) ==
    /\ rules' = e.rules
    /\ calls' = e.calls
    /\ op' = Op(name, policy, e.fault, again)
    /\ UNCHANGED <<fn, svcVars>>

\* A step of somebody else.
Env ==
    /\ calls' = <<>>
    /\ op' = Op("env", NoPolicy, "none", FALSE)
    /\ UNCHANGED <<fn, svcVars>>

\* Somebody else adds a rule to the kernel table.
ExternalAdd ==
    \E r \in ExternalRules :
        /\ Len(rules) - Len(DefaultRules) < MaxRules
        /\ IpRuleAdd(rules, r.prio, r.table, r.ip, r.len).ok
        /\ rules' = IpRuleAdd(rules, r.prio, r.table, r.ip, r.len).rules
        /\ Env
        /\ UNCHANGED policies

\* Somebody else deletes a rule that is not one of the kernel's own.
ExternalDel ==
    \E i \in 1..Len(rules) :
        /\ rules[i] \in ExternalRules
        /\ rules' = DelAt(rules, i).rules
        /\ Env
        /\ UNCHANGED policies

\* The list with policy p stored under its ID: in place, or appended.
withPolicy(list, p) ==
    IF \E i \in 1..Len(list) : list[i].ID = p.ID
    THEN [i \in 1..Len(list) |-> IF list[i].ID = p.ID THEN p ELSE list[i]]
    ELSE Append(list, p)

withoutPolicy(list, id) == SelectSeq(list, LAMBDA q : q.ID # id)

\* A policy is deleted from the store.  The watcher hands the handler a nil
\* policy for a delete, so the handler does nothing: the next full sync is the
\* first to act on it.
PolicyDelete ==
    \E i \in 1..Len(policies) :
        /\ policies' = withoutPolicy(policies, policies[i].ID)
        /\ Env
        /\ UNCHANGED rules

\* The handler's call of SetupPolicy, made when the provider was found.
putWith(p, k, fault) ==
    IF k = 0 THEN Exec(rules, fault)
    ELSE SetupPolicy(Exec(rules, fault), p, ProviderList[k]).e

\* A policy is put into the store and the watcher's handler runs: look the
\* provider up, and call SetupPolicy when there is one.
PolicyPut ==
    \E p \in Policies, fault \in Faults :
        /\ \/ \E i \in 1..Len(policies) : policies[i].ID = p.ID
           \/ Len(policies) < MaxPolicies
        /\ policies' = withPolicy(policies, p)
        /\ Done(putWith(p, providerIndex(ProviderList, p.ProviderID), fault),
                "SetupPolicy", p, FALSE)

\* Manager.RemovePolicy called for a policy of the list whose provider resolves.
PolicyRemove ==
    \E i \in 1..Len(policies), fault \in Faults :
        /\ providerIndex(ProviderList, policies[i].ProviderID) # 0
        /\ Done(RemovePolicy(Exec(rules, fault), policies[i],
                             ProviderList[providerIndex(ProviderList,
                                                        policies[i].ProviderID)]).e,
                "RemovePolicy", policies[i], FALSE)
        /\ UNCHANGED policies

\* performFullSync's engine call: SyncPolicies(policies, providers).
FullSync ==
    \E fault \in Faults :
      \E order \in mapOrders(Exec(rules, fault)) :
        /\ Done(SyncPolicies(Exec(rules, fault), policies, ProviderList, order).e,
                "SyncPolicies", NoPolicy,
                op.name = "SyncPolicies" /\ op.fault = "none" /\ fault = "none")
        /\ UNCHANGED policies

\* main's teardown: CleanupAllRules.
Teardown ==
    \E fault \in Faults :
        /\ Done(CleanupAllRules(Exec(rules, fault)).e, "CleanupAllRules", NoPolicy, FALSE)
        /\ UNCHANGED policies

Next ==
    \/ ExternalAdd
    \/ ExternalDel
    \/ PolicyDelete
    \/ PolicyPut
    \/ PolicyRemove
    \/ FullSync
    \/ Teardown

Spec == Init /\ [][Next]_vars

(***************************************************************************)
(* Specification SpecSvc: the service's tasks, interleaved.  Start runs    *)
(* the initial full sync and then starts periodicSync and the two          *)
(* watchers; main cancels the context, waits for the wait group and then   *)
(* removes the managed rules.  SyncPolicies takes one step per pass, the   *)
(* policy handler's SetupPolicy one step for its read of the table and one *)
(* for its write.                                                          *)
(***************************************************************************)
\* The commands the host may fail to run during one engine call of the service.
SvcFaults == {"none", "show", "add", "del"}

\* Bound: the updates waiting for the watchers.
MaxUpdates == 1

\* Bound: the writes the API makes to the store.
MaxEvents == 2

\* The policies the API puts into the store.
SvcPolicies ==
    {[ID |-> "10.0.0.1", ProviderID |-> "isp1", Enabled |-> TRUE],
     [ID |-> "10.0.0.1", ProviderID |-> "isp2", Enabled |-> TRUE],
     [ID |-> "10.0.0.10", ProviderID |-> "isp2", Enabled |-> TRUE]}

Go(t, label) == pc' = [pc EXCEPT ![t] = label]

\* The table after an engine call that ended in execution e.
Table(e) == rules' = e.rules /\ UNCHANGED <<calls, op, fn>>

\* The kernel table and the records of the last step.
Kernel == <<rules, calls, op, fn>>

NoProvider == [ID |-> "", TableID |-> 0]

\* An update of the store's watch on bucket `kind`: the operation and the entry.
Update(kind, o, policy, provider) ==
    [kind |-> kind, op |-> o, policy |-> policy, provider |-> provider]

\* The positions of the updates waiting for the watcher of `kind`.
Pending(kind) == {i \in 1..Len(updates) : updates[i].kind = kind}

\* The sequence without its element i.
Without(seq, i) == SubSeq(seq, 1, i - 1) \o SubSeq(seq, i + 1, Len(seq))

\* The process is running: main has not returned.
Alive == pc["main"] # "exit"

\* createPolicy / updatePolicy: the policy is written to the store, and the
\* store will notify the watcher.
ApiPut ==
    \E p \in SvcPolicies :
        /\ pc["main"] = "run"
        /\ Len(updates) < MaxUpdates
        /\ events < MaxEvents
        /\ events' = events + 1
        /\ policies' = withPolicy(policies, p)
        /\ updates' = Append(updates, Update("policy", "put", p, NoProvider))
        /\ UNCHANGED <<Kernel, providers, pc, mu, cacheMu, cache, local, cb, ctxDone, wg>>

\* deletePolicy: the policy is deleted from the store, and the store will
\* notify the watcher.
ApiDelete ==
    \E i \in 1..Len(policies) :
        /\ pc["main"] = "run"
        /\ Len(updates) < MaxUpdates
        /\ events < MaxEvents
        /\ events' = events + 1
        /\ policies' = withoutPolicy(policies, policies[i].ID)
        /\ updates' = Append(updates, Update("policy", "delete", policies[i], NoProvider))
        /\ UNCHANGED <<Kernel, providers, pc, mu, cacheMu, cache, local, cb, ctxDone, wg>>

\* The providers the API puts into the store.
SvcProviders == {ProviderList[k] : k \in 1..Len(ProviderList)}

\* The list with provider pr stored under its ID: in place, or appended.
withProvider(list, pr) ==
    IF \E i \in 1..Len(list) : list[i].ID = pr.ID
    THEN [i \in 1..Len(list) |-> IF list[i].ID = pr.ID THEN pr ELSE list[i]]
    ELSE Append(list, pr)

withoutProvider(list, id) == SelectSeq(list, LAMBDA q : q.ID # id)

\* createProvider / updateProvider: the provider is written to the store.
ApiPutProvider ==
    \E pr \in SvcProviders :
        /\ pc["main"] = "run"
        /\ Len(updates) < MaxUpdates
        /\ events < MaxEvents
        /\ events' = events + 1
        /\ providers' = withProvider(providers, pr)
        /\ updates' = Append(updates, Update("provider", "put", NoPolicy, pr))
        /\ UNCHANGED <<Kernel, policies, pc, mu, cacheMu, cache, local, cb, ctxDone, wg>>

\* deleteProvider: the provider is deleted from the store.
ApiDeleteProvider ==
    \E k \in 1..Len(providers) :
        /\ pc["main"] = "run"
        /\ Len(updates) < MaxUpdates
        /\ events < MaxEvents
        /\ events' = events + 1
        /\ providers' = withoutProvider(providers, providers[k].ID)
        /\ updates' = Append(updates, Update("provider", "delete", NoPolicy, providers[k]))
        /\ UNCHANGED <<Kernel, policies, pc, mu, cacheMu, cache, local, cb, ctxDone, wg>>

\* performFullSync: ListProviders and ListPolicies.
SyncList(t) ==
    /\ Alive
    /\ pc[t] = "list"
    /\ local' = [local EXCEPT ![t] =
                     [NoLocal EXCEPT !.policies = policies, !.providers = providers]]
    /\ Go(t, "cache")
    /\ UNCHANGED <<Kernel, Store, mu, cacheMu, cache, updates, cb, ctxDone, wg>>

\* performFullSync: ListProviders or ListPolicies returns an error, which
\* performFullSync returns before it has written anything.
SyncListFails(t) ==
    /\ Alive
    /\ pc[t] = "list"
    /\ Go(t, "failed")
    /\ UNCHANGED <<Kernel, Store, mu, cacheMu, cache, local, updates, cb, ctxDone, wg>>

\* The caller of performFullSync returns on the error, as from its select on
\* ctx.Done(): the task ends and its deferred wg.Done() runs.
SyncFailedEnds(t) ==
    /\ Alive
    /\ pc[t] = "failed"
    /\ fn' = [name |-> "performFullSync", arg |-> t, ones |-> 0, result |-> 1]
    /\ wg' = IF t = "start" THEN wg ELSE wg - 1
    /\ Go(t, IF t = "start" THEN "spawn_periodic" ELSE "done")
    /\ UNCHANGED <<rules, calls, op, Store, mu, cacheMu, cache, local, updates, cb,
                   ctxDone>>

\* The caller of performFullSync logs the error and goes on: Start to its
\* go statements, periodicSync to the select of its loop.
SyncFailed(t) ==
    /\ Alive
    /\ pc[t] = "failed"
    /\ fn' = [name |-> "performFullSync", arg |-> t, ones |-> 0, result |-> 1]
    /\ Go(t, IF t = "start" THEN "spawn_periodic" ELSE "select")
    /\ UNCHANGED <<rules, calls, op, Store, mu, cacheMu, cache, local, updates, cb,
                   ctxDone, wg>>

\* performFullSync: the caches are replaced under cacheMu.
SyncCache(t) ==
    /\ Alive
    /\ pc[t] = "cache"
    /\ cacheMu = "none"
    /\ cache' = [providers |-> local[t].providers, policies |-> local[t].policies]
    /\ Go(t, "lock")
    /\ UNCHANGED <<Kernel, Store, mu, cacheMu, local, updates, cb, ctxDone, wg>>

\* SyncPolicies entered without m.mu: the pass goes on, the lock stays free.
SyncLockSkipped(t) ==
    /\ Alive
    /\ pc[t] = "lock"
    /\ Go(t, "dup")
    /\ UNCHANGED <<Kernel, Store, mu, cacheMu, cache, local, updates, cb, ctxDone, wg>>

\* SyncPolicies taking the cache's lock after the engine's and keeping it.
SyncLockWithCache(t) ==
    /\ Alive
    /\ pc[t] = "lock"
    /\ mu = "none"
    /\ cacheMu = "none"
    /\ mu' = t
    /\ cacheMu' = t
    /\ Go(t, "dup")
    /\ UNCHANGED <<Kernel, Store, cache, local, updates, cb, ctxDone, wg>>

\* SyncPolicies: m.mu.Lock().
SyncLock(t) ==
    /\ Alive
    /\ pc[t] = "lock"
    /\ mu = "none"
    /\ mu' = t
    /\ Go(t, "dup")
    /\ UNCHANGED <<Kernel, Store, cacheMu, cache, local, updates, cb, ctxDone, wg>>

\* SyncPolicies: cleanupDuplicateRules.
SyncDup(t) ==
    /\ Alive
    /\ pc[t] = "dup"
    /\ \E fault \in SvcFaults :
         \E order \in mapOrders(Exec(rules, fault)) :
           Table(cleanupDuplicateRules(Exec(rules, fault), order).e)
    /\ local' = [local EXCEPT ![t].i = 1]
    /\ Go(t, "setup")
    /\ UNCHANGED <<Store, mu, cacheMu, cache, updates, cb, ctxDone, wg>>

\* The index of the provider of the round's policy among the listed
\* providers; 0 when there is none.
roundProvider(t) ==
    providerIndex(local[t].providers, local[t].policies[local[t].i].ProviderID)

\* The end of a round whose SetupPolicy, if one was called (k # 0), ended in
\* r: the error is logged and the loop goes on.  With `abort` an error ends
\* the pass instead.
afterRound(t, r, k, abort) ==
    /\ Table(r.e)
    /\ local' = [local EXCEPT ![t].i = @ + 1,
                              ![t].called = IF k # 0 THEN @ \cup {local[t].i} ELSE @,
                              ![t].errs = IF r.err THEN @ \cup {local[t].i} ELSE @]
    /\ pc' = IF abort /\ r.err THEN [pc EXCEPT ![t] = "validate"] ELSE pc

\* A loop that a failed SetupPolicy ends.
SyncSetupAborting(t) ==
    /\ Alive
    /\ pc[t] = "setup"
    /\ local[t].i <= Len(local[t].policies)
    /\ \E fault \in SvcFaults :
           afterRound(t, setupRound(Exec(rules, fault), local[t].policies[local[t].i],
                                    local[t].providers, roundProvider(t)),
                      roundProvider(t), TRUE)
    /\ UNCHANGED <<Store, mu, cacheMu, cache, updates, cb, ctxDone, wg>>

\* SyncPolicies: one round of the loop over the policies.
SyncSetup(t) ==
    /\ Alive
    /\ pc[t] = "setup"
    /\ local[t].i <= Len(local[t].policies)
    /\ \E fault \in SvcFaults :
           afterRound(t, setupRound(Exec(rules, fault), local[t].policies[local[t].i],
                                    local[t].providers, roundProvider(t)),
                      roundProvider(t), FALSE)
    /\ UNCHANGED <<Store, mu, cacheMu, cache, updates, cb, ctxDone, wg>>

\* SyncPolicies: the loop is over, cleanupStaleRules.
SyncStale(t) ==
    /\ Alive
    /\ pc[t] = "setup"
    /\ local[t].i > Len(local[t].policies)
    /\ \E fault \in SvcFaults :
           Table(cleanupStaleRules(Exec(rules, fault), local[t].policies).e)
    /\ local' = [local EXCEPT ![t].stale = TRUE]
    /\ Go(t, "validate")
    /\ UNCHANGED <<Store, mu, cacheMu, cache, updates, cb, ctxDone, wg>>

\* SyncPolicies: validateSingleRulePerSource, then the deferred m.mu.Unlock();
\* performFullSync returns to Start or to periodicSync's loop.
SyncReturn(t) ==
    /\ Alive
    /\ pc[t] = "validate"
    /\ mu' = "none"
    /\ local' = [local EXCEPT ![t] = NoLocal]
    /\ Go(t, IF t = "start" THEN "spawn_periodic" ELSE "select")
    /\ UNCHANGED <<Kernel, Store, cacheMu, cache, updates, cb, ctxDone, wg>>

\* Start: s.wg.Add(1) and the go statement, for each of the three tasks.
\* A spawned task begins at `first`: periodicSync in the select of its loop,
\* a watcher at the creation of its stream.
Spawns ==
    <<[at |-> "spawn_periodic", task |-> "periodic", then |-> "spawn_providers",
       first |-> "select"],
      [at |-> "spawn_providers", task |-> "watchProviders", then |-> "spawn_policies",
       first |-> "watch"],
      [at |-> "spawn_policies", task |-> "watchPolicies", then |-> "done",
       first |-> "watch"]>>

Watchers == {"watchProviders", "watchPolicies"}

StartSpawn ==
    \E k \in 1..Len(Spawns) :
        /\ Alive
        /\ pc["start"] = Spawns[k].at
        /\ wg' = wg + 1
        /\ pc' = [pc EXCEPT !["start"] = Spawns[k].then, ![Spawns[k].task] = Spawns[k].first]
        /\ UNCHANGED <<Kernel, Store, mu, cacheMu, cache, local, updates, cb, ctxDone>>

\* WatchProviders / WatchPolicies: c.kv.Watch succeeds, the loop over the
\* stream's updates begins.
WatchCreate(t) ==
    /\ Alive
    /\ pc[t] = "watch"
    /\ Go(t, "select")
    /\ UNCHANGED <<Kernel, Store, mu, cacheMu, cache, local, updates, cb, ctxDone, wg>>

\* c.kv.Watch returns an error: the watch function returns it, the task logs
\* it and returns, and its deferred wg.Done() runs.
WatchCreateFails(t) ==
    /\ Alive
    /\ pc[t] = "watch"
    /\ wg' = wg - 1
    /\ Go(t, "done")
    /\ UNCHANGED <<Kernel, Store, mu, cacheMu, cache, local, updates, cb, ctxDone>>

\* periodicSync: the ticker fires.
PeriodicTick ==
    /\ Alive
    /\ pc["periodic"] = "select"
    /\ Go("periodic", "list")
    /\ UNCHANGED <<Kernel, Store, mu, cacheMu, cache, local, updates, cb, ctxDone, wg>>

\* A task's select sees ctx.Done(): it returns, and its deferred wg.Done() runs.
TaskExit(t) ==
    /\ Alive
    /\ pc[t] = "select"
    /\ ctxDone
    /\ wg' = wg - 1
    /\ Go(t, "done")
    /\ UNCHANGED <<Kernel, Store, mu, cacheMu, cache, local, updates, cb, ctxDone>>

\* The provider cache after the provider handler has run for update u.  A
\* delete is handed on with a nil provider, which makes the handler's delete
\* branch do nothing.
providerSwitch(list, u, nil) ==
    IF nil THEN list
    ELSE IF u.op = "put" THEN withProvider(list, u.provider)
    ELSE withoutProvider(list, u.provider.ID)

\* WatchProviders: an update arrives and the callback runs, under cacheMu.
ProviderHandle ==
    /\ Alive
    /\ pc["watchProviders"] = "select"
    /\ Pending("provider") # {}
    /\ cacheMu = "none"
    /\ cache' = [cache EXCEPT !.providers =
                     providerSwitch(@, updates[Least(Pending("provider"))],
                                    updates[Least(Pending("provider"))].op = "delete")]
    /\ updates' = Without(updates, Least(Pending("provider")))
    /\ UNCHANGED <<Kernel, Store, pc, mu, cacheMu, local, cb, ctxDone, wg>>

\* The callback's arguments for update u: a delete is handed on with a nil
\* policy, a put with the policy decoded from the value.
callbackArgs(u) ==
    [op |-> u.op, key |-> u.policy.ID, nil |-> u.op = "delete",
     policy |-> IF u.op = "delete" THEN NoPolicy ELSE u.policy,
     found |-> NoRule]

\* WatchPolicies: an update arrives and the callback is called.
WatchDeliver ==
    /\ Alive
    /\ pc["watchPolicies"] = "select"
    /\ Pending("policy") # {}
    /\ cb' = callbackArgs(updates[Least(Pending("policy"))])
    /\ updates' = Without(updates, Least(Pending("policy")))
    /\ Go("watchPolicies", "cb_lock")
    /\ UNCHANGED <<Kernel, Store, mu, cacheMu, cache, local, ctxDone, wg>>

\* The handler's switch, k the index of the policy's provider in the cache:
\* the policy cache it leaves and the place it goes on at.  A nil policy makes
\* both branches do nothing.
handlerSwitch(k) ==
    IF cb.nil THEN [policies |-> cache.policies, at |-> "cb_unlock"]
    ELSE IF cb.op = "put"
    THEN [policies |-> withPolicy(cache.policies, cb.policy),
          at |-> IF k = 0 THEN "cb_unlock" ELSE "cb_setup"]
    ELSE [policies |-> withoutPolicy(cache.policies, cb.policy.ID),
          at |-> IF k = 0 THEN "cb_unlock" ELSE "cb_remove"]

\* The handler: s.cacheMu.Lock(), the policy goes into the cache or out of it,
\* the provider is looked up in the cache.
HandlerLock ==
    /\ Alive
    /\ pc["watchPolicies"] = "cb_lock"
    /\ cacheMu = "none"
    /\ cacheMu' = "watchPolicies"
    /\ cache' = [cache EXCEPT !.policies =
                     handlerSwitch(providerIndex(cache.providers,
                                                 cb.policy.ProviderID)).policies]
    /\ Go("watchPolicies",
          handlerSwitch(providerIndex(cache.providers, cb.policy.ProviderID)).at)
    /\ UNCHANGED <<Kernel, Store, mu, local, updates, cb, ctxDone, wg>>

\* The handler's SetupPolicy, which takes no lock: the disabled branch, or the
\* read of the table by checkRoutingRuleExists.
HandlerSetup ==
    /\ Alive
    /\ pc["watchPolicies"] = "cb_setup"
    /\ IF cb.policy.Enabled
       THEN /\ cb' = [cb EXCEPT !.found =
                         checkRoutingRuleExists(Exec(rules, "none"), SrcNetOf[cb.policy.ID])]
            /\ Go("watchPolicies", "cb_apply")
            /\ UNCHANGED Kernel
       ELSE /\ Table(disablePolicyWith(Exec(rules, "none"), SrcNetOf[cb.policy.ID]).e)
            /\ Go("watchPolicies", "cb_unlock")
            /\ UNCHANGED cb
    /\ UNCHANGED <<Store, mu, cacheMu, cache, local, updates, ctxDone, wg>>

\* The handler's engine call ends: SetupPolicy's write that follows from what
\* was read, or RemovePolicy.
handlerWrite(provider) ==
    IF pc["watchPolicies"] = "cb_apply"
    THEN setupPolicyFrom(Exec(rules, "none"), SrcNetOf[cb.policy.ID], provider.TableID,
                         cb.found).e
    ELSE RemovePolicy(Exec(rules, "none"), cb.policy, provider).e

HandlerApply ==
    /\ Alive
    /\ pc["watchPolicies"] \in {"cb_apply", "cb_remove"}
    /\ Table(handlerWrite(cache.providers[providerIndex(cache.providers,
                                                        cb.policy.ProviderID)]))
    /\ Go("watchPolicies", "cb_unlock")
    /\ UNCHANGED <<Store, mu, cacheMu, cache, local, updates, cb, ctxDone, wg>>

\* The handler returns: the deferred s.cacheMu.Unlock().
HandlerUnlock ==
    /\ Alive
    /\ pc["watchPolicies"] = "cb_unlock"
    /\ cacheMu' = "none"
    /\ cb' = NoCallback
    /\ Go("watchPolicies", "select")
    /\ UNCHANGED <<Kernel, Store, mu, cache, local, updates, ctxDone, wg>>

\* main, on a signal: Stop's s.cancel().
MainStop ==
    /\ pc["main"] = "run"
    /\ ctxDone' = TRUE
    /\ Go("main", "wait")
    /\ UNCHANGED <<Kernel, Store, mu, cacheMu, cache, local, updates, cb, wg>>

\* Stop's s.wg.Wait() returns.
MainWait ==
    /\ pc["main"] = "wait"
    /\ wg = 0
    /\ Go("main", "cleanup")
    /\ UNCHANGED <<Kernel, Store, mu, cacheMu, cache, local, updates, cb, ctxDone, wg>>

\* main: routerManager.CleanupAllRules().
MainCleanup ==
    /\ pc["main"] = "cleanup"
    /\ Table(CleanupAllRules(Exec(rules, "none")).e)
    /\ Go("main", "cleaned")
    /\ UNCHANGED <<Store, mu, cacheMu, cache, local, updates, cb, ctxDone, wg>>

\* main returns: the process and all its goroutines end.
MainExit ==
    /\ pc["main"] = "cleaned"
    /\ Go("main", "exit")
    /\ UNCHANGED <<Kernel, Store, mu, cacheMu, cache, local, updates, cb, ctxDone, wg>>

\* GET /api/v1/stats, Service.GetStats: s.cacheMu.RLock().
GetStats ==
    /\ pc["main"] = "run"
    /\ events < MaxEvents
    /\ events' = events + 1
    /\ cacheMu = "none"
    /\ cacheMu' = "GetStats"
    /\ UNCHANGED <<Kernel, policies, providers, pc, mu, cache, local, updates, cb,
                   ctxDone, wg>>

\* GetStats returns: the deferred s.cacheMu.RUnlock().
GetStatsReturn ==
    /\ cacheMu = "GetStats"
    /\ cacheMu' = "none"
    /\ UNCHANGED <<Kernel, Store, pc, mu, cache, local, updates, cb, ctxDone, wg>>

\* GET /api/v1/stats, Manager.GetRoutingStats: m.mu.RLock().
GetRoutingStats ==
    /\ pc["main"] = "run"
    /\ events < MaxEvents
    /\ events' = events + 1
    /\ mu = "none"
    /\ mu' = "GetRoutingStats"
    /\ UNCHANGED <<Kernel, policies, providers, pc, cacheMu, cache, local, updates, cb,
                   ctxDone, wg>>

\* GetRoutingStats returns: the deferred m.mu.RUnlock().
GetRoutingStatsReturn ==
    /\ mu = "GetRoutingStats"
    /\ mu' = "none"
    /\ UNCHANGED <<Kernel, Store, pc, cacheMu, cache, local, updates, cb, ctxDone, wg>>

SvcNext ==
    \/ ApiPut
    \/ ApiDelete
    \/ ApiPutProvider
    \/ ApiDeleteProvider
    \/ ProviderHandle
    \/ \E t \in SyncTasks : SyncList(t)
    \/ \E t \in SyncTasks : SyncListFails(t)
    \/ \E t \in SyncTasks : SyncFailed(t)
    \/ \E t \in SyncTasks : SyncCache(t)
    \/ \E t \in SyncTasks : SyncLock(t)
    \/ \E t \in SyncTasks : SyncDup(t)
    \/ \E t \in SyncTasks : SyncSetup(t)
    \/ \E t \in SyncTasks : SyncStale(t)
    \/ \E t \in SyncTasks : SyncReturn(t)
    \/ StartSpawn
    \/ PeriodicTick
    \/ \E t \in {"periodic", "watchProviders", "watchPolicies"} : TaskExit(t)
    \/ \E t \in Watchers : WatchCreate(t)
    \/ \E t \in Watchers : WatchCreateFails(t)
    \/ WatchDeliver
    \/ HandlerLock
    \/ HandlerSetup
    \/ HandlerApply
    \/ HandlerUnlock
    \/ MainStop
    \/ MainWait
    \/ MainCleanup
    \/ MainExit
    \/ GetStats
    \/ GetStatsReturn
    \/ GetRoutingStats
    \/ GetRoutingStatsReturn

SpecSvc == Init /\ [][SvcNext]_vars

(***************************************************************************)
(* Specification SpecFault: full syncs during which the host fails to run  *)
(* the commands of one kind, on the tables and policy lists of Spec.       *)
(***************************************************************************)
\* SyncPolicies has returned r.
Returned(r, fault) ==
    /\ rules' = r.e.rules
    /\ calls' = r.e.calls
    /\ op' = Op("SyncPolicies", NoPolicy, fault, FALSE)
    /\ fn' = [name |-> "SyncPolicies", arg |-> "", ones |-> 0,
              result |-> IF r.err THEN 1 ELSE 0]
    /\ UNCHANGED <<policies, svcVars>>

FaultySync ==
    \E fault \in SvcFaults :
      \E order \in mapOrders(Exec(rules, fault)) :
        Returned(SyncPolicies(Exec(rules, fault), policies, ProviderList, order), fault)

\* A policy is put into the store while the service is not watching it.
StorePut ==
    \E p \in Policies :
        /\ \/ \E i \in 1..Len(policies) : policies[i].ID = p.ID
           \/ Len(policies) < MaxPolicies
        /\ policies' = withPolicy(policies, p)
        /\ Env
        /\ UNCHANGED rules

FaultNext ==
    \/ ExternalAdd
    \/ StorePut
    \/ FaultySync

SpecFault == Init /\ [][FaultNext]_vars

(***************************************************************************)
(* Specification SpecDup: the engine functions the service's paths do not  *)
(* reach on their own, cleanupDuplicateRules and the provider functions,   *)
(* called on the tables other programs and the engine can leave behind.    *)
(***************************************************************************)
\* Manager.cleanupDuplicateRules, the host running every command.
DupCleanup ==
    \E order \in mapOrders(Exec(rules, "none")) :
        /\ Done(cleanupDuplicateRules(Exec(rules, "none"), order).e,
                "cleanupDuplicateRules", NoPolicy, FALSE)
        /\ UNCHANGED policies

\* No task of the service calls Manager.SyncProviders: the place of its
\* caller is kept in pc and local of this task.
Caller == "periodic"

\* SyncProviders is in its second loop, before the call for provider i.
InSetupLoop ==
    /\ pc[Caller] = "sp_setup"
    /\ local[Caller].i <= Len(local[Caller].providers)

\* Manager.SyncProviders(list): m.mu.Lock(), the deferred unlock, and the
\* first loop, clearProviderRoutes for every provider of the list.
SyncProvidersCall ==
    \E list \in {<<>>, ProviderList} :
        /\ pc[Caller] = "off"
        /\ mu = "none"
        /\ mu' = Caller
        /\ local' = [local EXCEPT ![Caller] = [NoLocal EXCEPT !.providers = list, !.i = 1]]
        /\ Go(Caller, "sp_setup")
        /\ calls' = <<>>
        /\ op' = Op("SyncProviders", NoPolicy, "none", FALSE)
        /\ UNCHANGED <<rules, fn, Store, cacheMu, cache, updates, cb, ctxDone, wg>>

\* Manager.SetupProvider: m.mu.Lock(), the body, the deferred unlock; called
\* on its own or by SyncProviders' second loop for provider i of its list.
ProviderSetup ==
    \E k \in 1..Len(ProviderList), inLoop \in BOOLEAN :
        /\ mu = "none"
        /\ inLoop => InSetupLoop
                       /\ local[Caller].providers[local[Caller].i] = ProviderList[k]
        /\ rules' = SetupProvider(Exec(rules, "none"), ProviderList[k]).e.rules
        /\ calls' = SetupProvider(Exec(rules, "none"), ProviderList[k]).e.calls
        /\ op' = Op("SetupProvider", NoPolicy, "none", FALSE)
        /\ local' = IF inLoop THEN [local EXCEPT ![Caller].i = @ + 1] ELSE local
        /\ UNCHANGED <<fn, Store, pc, mu, cacheMu, cache, updates, cb, ctxDone, wg>>

\* SyncProviders: both loops are through, return nil and the deferred
\* m.mu.Unlock().
SyncProvidersReturn ==
    /\ pc[Caller] = "sp_setup"
    /\ ~InSetupLoop
    /\ mu' = "none"
    /\ Go(Caller, "off")
    /\ calls' = <<>>
    /\ op' = Op("SyncProvidersReturn", NoPolicy, "none", FALSE)
    /\ UNCHANGED <<rules, fn, Store, cacheMu, cache, local, updates, cb, ctxDone, wg>>

\* Manager.RemoveProvider, under m.mu.
ProviderRemove ==
    \E k \in 1..Len(ProviderList) :
        /\ mu = "none"
        /\ Done(RemoveProvider(Exec(rules, "none"), ProviderList[k]).e,
                "RemoveProvider", NoPolicy, FALSE)
        /\ UNCHANGED policies

DupNext ==
    \/ ExternalAdd
    \/ ExternalDel
    \/ DupCleanup
    \/ ProviderSetup
    \/ ProviderRemove
    \/ SyncProvidersCall
    \/ SyncProvidersReturn

SpecDup == Init /\ [][DupNext]_vars

(***************************************************************************)
(* Specification SpecApi: the REST handlers writing to the store, and the  *)
(* engine called with IDs the handlers refuse.  The store keeps a record   *)
(* under sanitizeKey(ID).                                                  *)
(***************************************************************************)
\* The characters sanitizeKey keeps.
KeyChars == "abcdefghijklmnopqrstuvwxyzABCDEFGHIJKLMNOPQRSTUVWXYZ0123456789._"

KeyChar(c) == \E i \in 1..Len(KeyChars) : SubSeq(KeyChars, i, i) = c

RECURSIVE sanitizeKey(_)
sanitizeKey(key) ==
    IF key = "" THEN ""
    ELSE (IF KeyChar(SubSeq(key, 1, 1)) THEN SubSeq(key, 1, 1) ELSE "_")
             \o sanitizeKey(SubSeq(key, 2, Len(key)))

\* The names and table IDs of the requests.
RequestNames == {"", "isp1", "ISP 1", "ISP-1"}

RequestTables == {0, 7}

\* The source_ip of the policy requests.
RequestIDs == PolicyIDs \cup MalformedIDs

\* The store's key of each provider ID, computed once.
KeyOf == [id \in RequestNames \cup ProviderIDs |-> sanitizeKey(id)]

\* Client.GetProvider: the index of the record kept under the key of id, 0
\* when the store has none.
GetProvider(list, id) == Least({i \in 1..Len(list) : KeyOf[list[i].ID] = KeyOf[id]})

\* Client.StoreProvider: kv.Put under the key of the provider's ID.
StoreProvider(list, pr) ==
    IF GetProvider(list, pr.ID) # 0
    THEN [i \in 1..Len(list) |-> IF i = GetProvider(list, pr.ID) THEN pr ELSE list[i]]
    ELSE Append(list, pr)

\* createProvider: the answer and the provider store it leaves.
createProvider(list, name, tableID) ==
    IF name = "" \/ tableID < 1 THEN [code |-> 400, providers |-> list]
    ELSE IF GetProvider(list, name) # 0 THEN [code |-> 409, providers |-> list]
    ELSE [code |-> 201,
          providers |-> StoreProvider(list, [ID |-> name, TableID |-> tableID])]

\* The answer of a handler, and the handler as the last step.
Answered(name, arg, n, code) ==
    /\ fn' = [name |-> name, arg |-> arg, ones |-> n, result |-> code]
    /\ op' = Op(name, NoPolicy, "none", FALSE)

CreateProvider ==
    \E name \in RequestNames, tableID \in RequestTables :
        /\ events < MaxEvents
        /\ events' = events + 1
        /\ providers' = createProvider(providers, name, tableID).providers
        /\ Answered("createProvider", name, tableID, createProvider(providers, name, tableID).code)
        /\ UNCHANGED <<rules, calls, policies, pc, mu, cacheMu, cache, local, updates, cb,
                       ctxDone, wg>>

\* createPolicy and updatePolicy after the request was bound: Validate, the
\* provider's existence, StorePolicy.
Refused ==
    [id \in RequestIDs |-> Validate([ID |-> id, Name |-> "office", ProviderID |-> "isp1"])]

storePolicyChecked(p, ok) ==
    IF Refused[p.ID]
    THEN [code |-> 400, policies |-> policies]
    ELSE IF GetProvider(providers, p.ProviderID) = 0
    THEN [code |-> 400, policies |-> policies]
    ELSE [code |-> ok, policies |-> withPolicy(policies, p)]

CreatePolicy ==
    \E p \in [ID : RequestIDs, ProviderID : {"isp1", "gone"}, Enabled : BOOLEAN] :
        /\ events < MaxEvents
        /\ events' = events + 1
        /\ Len(policies) < MaxPolicies
        /\ policies' = storePolicyChecked(p, 201).policies
        /\ Answered("createPolicy", p.ID, 0, storePolicyChecked(p, 201).code)
        /\ UNCHANGED <<rules, calls, providers, pc, mu, cacheMu, cache, local, updates, cb,
                       ctxDone, wg>>

\* updatePolicy for a policy the store holds: the record is stored under the
\* key of the request's source_ip.
UpdatePolicy ==
    \E i \in 1..Len(policies) :
      \E p \in [ID : RequestIDs, ProviderID : {"isp1", "gone"}, Enabled : BOOLEAN] :
        /\ events < MaxEvents
        /\ events' = events + 1
        /\ Len(policies) < MaxPolicies \/ p.ID = policies[i].ID
        /\ policies' = storePolicyChecked(p, 200).policies
        /\ Answered("updatePolicy", p.ID, 0, storePolicyChecked(p, 200).code)
        /\ UNCHANGED <<rules, calls, providers, pc, mu, cacheMu, cache, local, updates, cb,
                       ctxDone, wg>>

\* triggerSync: the answer "Sync triggered successfully", and nothing else.
TriggerSync ==
    /\ Answered("triggerSync", "", 0, 200)
    /\ UNCHANGED <<rules, calls, policies, svcVars>>

\* An engine call has returned r for the policy with this ID.
Called(r, name, id) ==
    /\ rules' = r.e.rules
    /\ calls' = r.e.calls
    /\ fn' = [name |-> name, arg |-> id, ones |-> 0, result |-> IF r.err THEN 1 ELSE 0]

\* SetupPolicy reached by a policy whose ID the handlers would have refused.
SetupCall ==
    \E id \in MalformedIDs, enabled \in BOOLEAN :
        /\ Called(SetupPolicy(Exec(rules, "none"),
                              [ID |-> id, ProviderID |-> "isp1", Enabled |-> enabled],
                              ProviderList[1]),
                  "SetupPolicy", id)
        /\ op' = Op("SetupPolicy", NoPolicy, "none", FALSE)
        /\ UNCHANGED <<policies, svcVars>>

\* RemovePolicy reached by such a policy.
RemoveCall ==
    \E id \in MalformedIDs :
        /\ Called(RemovePolicy(Exec(rules, "none"),
                               [ID |-> id, ProviderID |-> "isp1", Enabled |-> TRUE],
                               ProviderList[1]),
                  "RemovePolicy", id)
        /\ op' = Op("RemovePolicy", NoPolicy, "none", FALSE)
        /\ UNCHANGED <<policies, svcVars>>

ApiNext ==
    \/ ExternalAdd
    \/ CreateProvider
    \/ CreatePolicy
    \/ UpdatePolicy
    \/ TriggerSync
    \/ SetupCall
    \/ RemoveCall

SpecApi == Init /\ [][ApiNext]_vars

(***************************************************************************)
(* Specification SpecEng: the engine's per-policy functions called on      *)
(* their own for a policy whose provider resolves, on the tables other     *)
(* programs and the engine can leave behind, the host failing to run the   *)
(* commands of one kind.                                                   *)
(***************************************************************************)
EngFaults == {"none", "del", "flush"}

\* The policies the callers hand to the engine: the provider was found.
EnginePolicies == {p \in Policies : providerIndex(ProviderList, p.ProviderID) # 0}

\* Manager.SetupPolicy(policy, provider).
SetupPolicyCall ==
    \E p \in EnginePolicies, fault \in EngFaults :
        /\ Called(SetupPolicy(Exec(rules, fault), p,
                              ProviderList[providerIndex(ProviderList, p.ProviderID)]),
                  "SetupPolicy", p.ID)
        /\ op' = Op("SetupPolicy", p, fault, FALSE)
        /\ UNCHANGED <<policies, svcVars>>

\* Manager.RemovePolicy(policy, provider).
RemovePolicyCall ==
    \E p \in EnginePolicies, fault \in {"none", "del"} :
        /\ p.Enabled /\ p.ProviderID = ProviderList[1].ID
        /\ Called(RemovePolicy(Exec(rules, fault), p, ProviderList[1]),
                  "RemovePolicy", p.ID)
        /\ op' = Op("RemovePolicy", p, fault, FALSE)
        /\ UNCHANGED <<policies, svcVars>>

\* Manager.removeAllRulesForSource(srcNet) for the source of policy p.
RemoveAllCall ==
    \E p \in EnginePolicies, fault \in {"none", "readd"} :
        /\ p.Enabled /\ p.ProviderID = ProviderList[1].ID
        /\ Called(removeAllRulesForSource(Exec(rules, fault), SrcNetOf[p.ID]),
                  "removeAllRulesForSource", p.ID)
        /\ op' = Op("removeAllRulesForSource", p, fault, FALSE)
        /\ UNCHANGED <<policies, svcVars>>

EngNext ==
    \/ ExternalAdd
    \/ SetupPolicyCall
    \/ RemovePolicyCall
    \/ RemoveAllCall

SpecEng == Init /\ [][EngNext]_vars

(***************************************************************************)
(* Specification SpecLive: the store is written a bounded number of times  *)
(* (events counts the writes, other programs add rules until the last      *)
(* write), the put handler runs with each put, a delete stays in updates   *)
(* (its handler is given a nil policy and does nothing), and               *)
(* periodicSync's ticker keeps firing: a full sync that would change       *)
(* something is eventually run.  No command fails.                         *)
(***************************************************************************)
\* The writes the store takes.
MaxWrites == 3

\* The store will not be written again.
StoreSettled == events = MaxWrites

\* Somebody else adds a rule before the store has settled.
OperatorAdd ==
    \E r \in ExternalRules :
        /\ ~StoreSettled
        /\ Len(rules) - Len(DefaultRules) < MaxRules
        /\ IpRuleAdd(rules, r.prio, r.table, r.ip, r.len).ok
        /\ rules' = IpRuleAdd(rules, r.prio, r.table, r.ip, r.len).rules
        /\ Env
        /\ UNCHANGED policies

\* A policy is put into the store and the watcher's handler runs.
StoreWrite ==
    \E p \in Policies :
        /\ ~StoreSettled
        /\ \/ \E i \in 1..Len(policies) : policies[i].ID = p.ID
           \/ Len(policies) < MaxPolicies
        /\ policies' = withPolicy(policies, p)
        /\ events' = events + 1
        /\ rules' = putWith(p, providerIndex(ProviderList, p.ProviderID), "none").rules
        /\ calls' = putWith(p, providerIndex(ProviderList, p.ProviderID), "none").calls
        /\ op' = Op("SetupPolicy", p, "none", FALSE)
        /\ UNCHANGED <<fn, pc, mu, cacheMu, cache, local, updates, cb, ctxDone, wg,
                       providers>>

\* A policy is deleted from the store; the handler, given a nil policy, does
\* nothing.
StoreDelete ==
    \E i \in 1..Len(policies) :
        /\ ~StoreSettled
        /\ policies' = withoutPolicy(policies, policies[i].ID)
        /\ events' = events + 1
        /\ updates' = <<Update("policy", "delete", policies[i], NoProvider)>>
        /\ calls' = <<>>
        /\ op' = Op("delete", policies[i], "none", FALSE)
        /\ UNCHANGED <<rules, fn, pc, mu, cacheMu, cache, local, cb, ctxDone, wg,
                       providers>>

LiveNext ==
    \/ OperatorAdd
    \/ StoreWrite
    \/ StoreDelete
    \/ FullSync

\* periodicSync calls performFullSync at every tick of its ticker.
SpecLive == Init /\ [][LiveNext]_vars /\ WF_vars(FullSync)

(***************************************************************************)
(* Specification SpecFn: the engine's pure functions applied to inputs.    *)
(***************************************************************************)
\* The addresses the sources are drawn from.
FnAddrs == {"10.0.0.1", "192.168.2.25", "172.16.200.7", "255.255.255.255"}

\* calculatePriority applied to the network that address/p resolves to.
priorityOf(arg, p, srcNet) ==
    [name |-> "calculatePriority", arg |-> arg, ones |-> p,
     result |-> IF srcNet.ok /\ srcNet.ones = p THEN calculatePriority(srcNet) ELSE -1]

ApplyPriority ==
    \E a \in FnAddrs, p \in 0..IPv4Bits :
        /\ fn' = priorityOf(a \o "/" \o ToString(p), p,
                            parseSourceNet(a \o "/" \o ToString(p)))
        /\ UNCHANGED <<rules, policies, calls, op, svcVars>>

\* The policy IDs Validate is given: IPv4 and IPv6 addresses and networks,
\* and texts that are neither.
ValidateIDs ==
    {"", "10.0.0.1", "192.168.1.0/24", "10.0.0.1/33", "256.1.1.1", "1.2.3",
     "10.0.0.1/", "not-an-ip", "::1", "2001:db8::1", "2001:db8::/32", "1:2:3",
     "::1::2", "fe80::12345"}

ApplyValidate ==
    \E id \in ValidateIDs, name \in {"", "office"}, provider \in {"", "isp1"} :
        /\ fn' = [name |-> "Validate", arg |-> id, ones |-> 0, Name |-> name,
                  ProviderID |-> provider,
                  result |-> IF Validate([ID |-> id, Name |-> name,
                                          ProviderID |-> provider]) THEN 1 ELSE 0]
        /\ UNCHANGED <<rules, policies, calls, op, svcVars>>

\* IDs of either address family, single addresses and networks.
AddIDs ==
    {"10.0.0.1", "10.0.0.0/8", "0.0.0.0/0", "::1", "2001:db8::/32", "2001:db8::/48",
     "::1/128", "10.0.0.1/33", "not-an-ip"}

\* ones of srcNet.Mask.Size() for the network SetupPolicy makes of an ID that
\* parses: the prefix length net.ParseCIDR read, or 32 for the
\* net.CIDRMask(32, 32) given to a single address of either family.
maskOnes(id) ==
    IF IsCIDR(id) THEN DecVal(SubSeq(id, IndexByte(id, "/") + 1, Len(id))) ELSE 32

\* A policy that passed Validate reaches SetupPolicy and addRoutingRule, which
\* passes calculatePriority(srcNet) to `ip rule add priority`.
ApplyAddPriority ==
    \E id \in AddIDs :
        /\ ~Validate([ID |-> id, Name |-> "office", ProviderID |-> "isp1"])
        /\ fn' = [name |-> "addRoutingRule", arg |-> id, ones |-> maskOnes(id),
                  result |-> calculatePriority([ones |-> maskOnes(id)])]
        /\ UNCHANGED <<rules, policies, calls, op, svcVars>>

FnNext == ApplyPriority \/ ApplyValidate \/ ApplyAddPriority

SpecFn == Init /\ [][FnNext]_vars

(***************************************************************************)
(* The contract, stated on the kernel table itself.                        *)
(***************************************************************************)
\* The positions of the rules of source ip/len with a priority in [2000, 2032].
ManagedRulesFor(rs, ip, len) ==
    {i \in 1..Len(rs) : InManagedRange(rs[i].prio) /\ rs[i].ip = ip /\ rs[i].len = len}

\* The rules of the table with a priority outside [2000, 2032], in table order.
OutsideRange(rs) == SelectSeq(rs, LAMBDA r : ~InManagedRange(r.prio))

\* The last step was an engine call that the host ran without a failure.
Ran(name) == op.name = name /\ op.fault = "none"

\* C1 (single-rule invariant): when SyncPolicies has returned, every source
\* network is referenced by at most one rule with a priority in [2000, 2032],
\* whatever the table held before and whatever the policy list is.
C1_SingleRulePerSource ==
    Ran("SyncPolicies") =>
        \A i \in 1..Len(rules) : Cardinality(ManagedRulesFor(rules, rules[i].ip, rules[i].len)) <= 1

EngineOps == {"SetupPolicy", "RemovePolicy", "SyncPolicies", "CleanupAllRules"}

\* C2 (ownership boundary): no engine operation adds or deletes a rule whose
\* priority lies outside [2000, 2032]: over every engine step the rules outside
\* the range stay exactly as they were.
C2_OwnershipBoundary ==
    [][op'.name \in EngineOps => OutsideRange(rules') = OutsideRange(rules)]_vars

\* Task t is inside SyncPolicies, after m.mu.Lock() and before the return.
InSyncPolicies(t) == pc[t] \in {"dup", "setup", "validate"}

\* Task t's pass has listed the rules at least once and has not returned.
PastFirstListing(t) == pc[t] \in {"setup", "validate"}

\* The handler's SetupPolicy is between its read of the table and its write.
HandlerReadThenWrite == pc["watchPolicies"] = "cb_apply"

\* C3 (full sync excludes notification updates): while a SyncPolicies pass is
\* between its first rule listing and its return, the policy handler's
\* SetupPolicy is never between its read of the rule table and its write.
C3_SyncExcludesNotification ==
    \A t \in SyncTasks : PastFirstListing(t) => ~HandlerReadThenWrite

\* C4 (full sync excludes itself): at most one task is inside SyncPolicies at
\* any time, and a task inside SyncPolicies holds m.mu from the duplicate
\* cleanup through the loop over the policies and the stale cleanup to the
\* validation.
C4_FullSyncExclusive ==
    /\ \A t \in SyncTasks : InSyncPolicies(t) => mu = t
    /\ \A t, u \in SyncTasks : InSyncPolicies(t) /\ InSyncPolicies(u) => t = u

\* The periodic pass is at its validation, holding the lock, after the startup
\* pass has returned and a notification has been handled.
C4_PeriodicPassHoldsLock ==
    /\ pc["start"] = "done"
    /\ pc["periodic"] = "validate"
    /\ mu = "periodic"
    /\ rules # DefaultRules

\* The policy resolves to a provider of the provider set.
Resolves(p) == providerIndex(ProviderList, p.ProviderID) # 0

\* The routing table of the policy's provider.
TableOf(p) == ProviderList[providerIndex(ProviderList, p.ProviderID)].TableID

\* The rule the contract wants for an enabled policy with a provider.
WantedRule(p) ==
    Rule(calculatePriority(SrcNetOf[p.ID]), SrcNetOf[p.ID].ip, SrcNetOf[p.ID].ones,
         TableOf(p))

\* The table holds rule r.
Holds(rs, r) == \E i \in 1..Len(rs) : rs[i] = r

\* Rule r is for the source of policy p.
ForSource(r, p) == r.ip = SrcNetOf[p.ID].ip /\ r.len = SrcNetOf[p.ID].ones

\* The table holds exactly one rule for the source of p, and it is the wanted one.
ExactlyWanted(rs, p) ==
    /\ Holds(rs, WantedRule(p))
    /\ \A i \in 1..Len(rs) : ForSource(rs[i], p) => rs[i] = WantedRule(p)

\* Every policy of the list names a provider of the provider set.
AllResolve == \A k \in 1..Len(policies) : Resolves(policies[k])

\* C5 (managed-rule correspondence): after a SyncPolicies pass without a tool
\* failure, a rule exists in [2000, 2032] if and only if the policy list of the
\* pass holds an enabled policy with that source whose provider has that table.
\* Stated for the lists in which every policy names an existing provider.
C5_ManagedRuleCorrespondence ==
    Ran("SyncPolicies") /\ AllResolve =>
        /\ \A i \in 1..Len(rules) :
               InManagedRange(rules[i].prio) =>
                   \E k \in 1..Len(policies) :
                       /\ policies[k].Enabled
                       /\ Resolves(policies[k])
                       /\ rules[i] = WantedRule(policies[k])
        /\ \A k \in 1..Len(policies) :
               policies[k].Enabled /\ Resolves(policies[k])
                   => Holds(rules, WantedRule(policies[k]))

\* C6 (idempotence of full sync): a SyncPolicies call that follows another one
\* with the same lists and no change in between issues no rule add, no rule
\* delete and no connection-tracking flush.
C6_FullSyncIdempotent == Ran("SyncPolicies") /\ op.again => calls = <<>>

\* C7 (provider switch): if the one rule of source S points at table T1 and
\* SetupPolicy is called for the enabled policy S with a provider of table
\* T2 # T1, then on return exactly one rule for S exists, with table T2 and
\* priority 2000 + (32 - prefix length).
C7_ProviderSwitch ==
    [][/\ op'.name = "SetupPolicy"
       /\ op'.policy.Enabled
       /\ Resolves(op'.policy)
       /\ \E k \in 1..Len(ProviderList) :
              /\ ProviderList[k].TableID # TableOf(op'.policy)
              /\ ExactlyWanted(rules, [op'.policy EXCEPT !.ProviderID = ProviderList[k].ID])
       => ExactlyWanted(rules', op'.policy)]_vars

\* C8 (disable then re-enable): SetupPolicy for a disabled policy leaves no rule
\* for its source; SetupPolicy for the same policy, enabled again with the same
\* provider, right after leaves exactly one rule for the source, with the
\* policy's priority and the provider's table.
C8_DisableThenReenable ==
    [][/\ (op'.name = "SetupPolicy" /\ ~op'.policy.Enabled /\ Resolves(op'.policy)
              => \A i \in 1..Len(rules') : ~ForSource(rules'[i], op'.policy))
       /\ ((/\ op.name = "SetupPolicy" /\ ~op.policy.Enabled /\ Resolves(op.policy)
             /\ op'.name = "SetupPolicy"
             /\ op'.policy = [op.policy EXCEPT !.Enabled = TRUE])
              => ExactlyWanted(rules', op'.policy))]_vars

\* C9 (stale-orphan recovery): after the stale-cleanup pass of SyncPolicies no
\* rule remains in [2000, 2032] whose source matches no enabled policy of the
\* list, and the pass leaves every rule outside the range in place.  Stated
\* for the lists in which every policy names an existing provider.
C9_StaleOrphanRecovery ==
    /\ Ran("SyncPolicies") /\ AllResolve =>
           \A i \in 1..Len(rules) :
               InManagedRange(rules[i].prio) =>
                   \E k \in 1..Len(policies) :
                       policies[k].Enabled /\ ForSource(rules[i], policies[k])
    /\ OutsideRange(cleanupStaleRules(Exec(rules, "none"), policies).e.rules)
           = OutsideRange(rules)

\* C10 (dangling provider reference): for a policy whose ProviderID is not in
\* the provider set, a put notification issues no kernel mutation, and a full
\* sync leaves a rule that was the only one of the policy's source in place.
C10_DanglingProvider ==
    [][/\ (op'.name = "SetupPolicy" /\ ~Resolves(op'.policy)
              => calls' = <<>> /\ rules' = rules)
       /\ (op'.name = "SyncPolicies" =>
              \A k \in 1..Len(policies) :
                  \A i \in 1..Len(rules) :
                      /\ ~Resolves(policies[k])
                      /\ ForSource(rules[i], policies[k])
                      /\ \A j \in 1..Len(rules) :
                             ForSource(rules[j], policies[k]) => j = i
                      => Holds(rules', rules[i]))]_vars

\* C11 (end-to-end result): after a SyncPolicies pass without a tool failure,
\* every enabled policy of the list whose provider exists has exactly one rule
\* for its source, with priority 2000 + (32 - prefix length) and the
\* provider's table, whatever the table held before the pass.
C11_EndToEndResult ==
    Ran("SyncPolicies") =>
        \A k \in 1..Len(policies) :
            policies[k].Enabled /\ Resolves(policies[k])
                => ExactlyWanted(rules, policies[k])

\* C12 (priority determinism): for every prefix length p in 0..32,
\* calculatePriority returns 2000 + (32 - p); the result lies in [2000, 2032],
\* and every longer prefix gets a strictly smaller priority number.
C12_PriorityDeterminism ==
    fn.name = "calculatePriority" =>
        /\ fn.result = 2000 + (32 - fn.ones)
        /\ fn.result >= 2000 /\ fn.result <= 2032
        /\ \A q \in 0..32 :
               q > fn.ones => calculatePriority(SrcNet(<<0, 0, 0, 0>>, q)) < fn.result
        /\ (fn.ones = 32 => fn.result = 2000)
        /\ (fn.ones = 0 => fn.result = 2032)

\* calculatePriority has been applied to a /24 and has returned 2008.
C12_Slash24Gives2008 ==
    fn.name = "calculatePriority" /\ fn.ones = 24 /\ fn.result = 2008

\* Stop has returned to main.
StopReturned == pc["main"] \in {"cleanup", "cleaned", "exit"}

\* Task t is inside performFullSync.
InFullSync(t) == pc[t] \in {"list", "cache", "lock", "dup", "setup", "validate"}

\* The policy handler is running.
InHandler ==
    pc["watchPolicies"] \in {"cb_lock", "cb_setup", "cb_apply", "cb_remove", "cb_unlock"}

\* C13 (shutdown waits for in-flight reconciliation): once Stop has returned,
\* no task is inside a full sync and the policy handler is not running, in
\* every interleaving of Start's goroutine with Stop.
C13_StopWaitsForReconciliation ==
    StopReturned => (\A t \in SyncTasks : ~InFullSync(t)) /\ ~InHandler

\* The table holds no rule with a priority in [2000, 2032].
NoManagedRule(rs) == \A i \in 1..Len(rs) : ~InManagedRange(rs[i].prio)

\* C14 (teardown on shutdown): when the shutdown sequence, Stop and then
\* CleanupAllRules, has finished and main has returned, the table holds no
\* rule with a priority in [2000, 2032].
C14_TeardownOnShutdown == pc["main"] = "exit" => NoManagedRule(rules)

\* CleanupAllRules alone: a call that the host ran without a failure leaves no
\* rule with a priority in [2000, 2032].
CleanupAllRulesEmptiesRange == Ran("CleanupAllRules") => NoManagedRule(rules)

\* The policy handler passes its switch on a delete event.
HandlesDelete ==
    /\ pc["watchPolicies"] = "cb_lock"
    /\ pc'["watchPolicies"] # "cb_lock"
    /\ cb.op = "delete"

\* C15 (policy delete notification): when the handler runs for a delete event,
\* the policy of the deleted key leaves the cache, and if that policy's
\* provider is cached the handler goes on to the engine's RemovePolicy.
C15_DeleteNotification ==
    [][HandlesDelete =>
           /\ \A i \in 1..Len(cache'.policies) : cache'.policies[i].ID # cb.key
           /\ \A i \in 1..Len(cache.policies) :
                  /\ cache.policies[i].ID = cb.key
                  /\ providerIndex(cache.providers, cache.policies[i].ProviderID) # 0
                  => pc'["watchPolicies"] = "cb_remove"]_vars

\* The policy handler passes its switch on a put event.
HandlesPut ==
    /\ pc["watchPolicies"] = "cb_lock"
    /\ pc'["watchPolicies"] # "cb_lock"
    /\ cb.op = "put"

\* The handler's SetupPolicy takes a step.
HandlerEngineStep ==
    /\ pc["watchPolicies"] \in {"cb_setup", "cb_apply"}
    /\ pc'["watchPolicies"] # pc["watchPolicies"]

\* The handler's SetupPolicy takes its first step: the check of the table.
HandlerReads ==
    pc["watchPolicies"] = "cb_setup" /\ pc'["watchPolicies"] = "cb_apply"

\* The rules of the table that are not for the source of policy p.
OtherSources(rs, p) == SelectSeq(rs, LAMBDA r : ~ForSource(r, p))

\* C16 (policy put notification): on a put event for policy P the cache entry
\* of P.ID becomes P; with P's provider in the cache the handler goes on to
\* SetupPolicy for P, which reads no rule but those of P's source (what its
\* check reports found is a rule of P's source) and changes no rule of another
\* source; with the provider absent the handler makes no kernel call.
C16_PutNotification ==
    [][/\ HandlesPut =>
              /\ \E i \in 1..Len(cache'.policies) : cache'.policies[i] = cb.policy
              /\ \A i \in 1..Len(cache'.policies) :
                     cache'.policies[i].ID = cb.policy.ID => cache'.policies[i] = cb.policy
              /\ IF providerIndex(cache.providers, cb.policy.ProviderID) = 0
                 THEN pc'["watchPolicies"] = "cb_unlock" /\ rules' = rules
                 ELSE pc'["watchPolicies"] = "cb_setup"
       /\ HandlerEngineStep =>
              OtherSources(rules', cb.policy) = OtherSources(rules, cb.policy)
       /\ HandlerReads /\ cb'.found.exists =>
                     \E i \in 1..Len(rules) :
                         /\ ForSource(rules[i], cb.policy)
                         /\ rules[i].prio = cb'.found.priority
                         /\ rules[i].table = cb'.found.table]_vars

\* The provider handler runs for the provider update at position i.
HandlesProvider(i) ==
    /\ pc["watchProviders"] = "select"
    /\ pc' = pc
    /\ updates[i].kind = "provider"
    /\ i = Least(Pending("provider"))
    /\ updates' = Without(updates, i)

\* C17 (provider notifications touch only the cache): handling a provider put
\* stores the provider under its ID in the provider cache, handling a provider
\* delete removes it from the provider cache; either leaves the policy cache
\* and the kernel table as they were.
C17_ProviderNotification ==
    [][\A i \in 1..Len(updates) :
           HandlesProvider(i) =>
               /\ rules' = rules
               /\ cache'.policies = cache.policies
               /\ updates[i].op = "put" =>
                      \E k \in 1..Len(cache'.providers) :
                          cache'.providers[k] = updates[i].provider
               /\ updates[i].op = "delete" =>
                      \A k \in 1..Len(cache'.providers) :
                          cache'.providers[k].ID # updates[i].provider.ID]_vars

\* The provider handler alone: it changes neither the kernel table nor the
\* policy cache, and a put ends with the provider in the provider cache.
ProviderHandlerFrame ==
    [][\A i \in 1..Len(updates) :
           HandlesProvider(i) =>
               /\ rules' = rules
               /\ cache'.policies = cache.policies
               /\ updates[i].op = "put" =>
                      \E k \in 1..Len(cache'.providers) :
                          cache'.providers[k] = updates[i].provider]_vars

\* The rounds of task t's pass whose policy names a listed provider.
RoundsWithProvider(t) ==
    {k \in 1..Len(local[t].policies) :
        providerIndex(local[t].providers, local[t].policies[k].ProviderID) # 0}

\* C18 (partial-failure isolation): when a SyncPolicies pass has come to its
\* validation, SetupPolicy has been called for every policy of the list that
\* has a provider, whichever of these calls failed, and cleanupStaleRules has
\* been called; while the loop runs, the rounds called are exactly those
\* before the loop index.
C18_PartialFailureIsolation ==
    \A t \in SyncTasks :
        /\ pc[t] = "validate" =>
               local[t].called = RoundsWithProvider(t) /\ local[t].stale
        /\ pc[t] = "setup" =>
               local[t].called = {k \in RoundsWithProvider(t) : k < local[t].i}
        /\ local[t].errs \subseteq local[t].called

\* A pass is at its validation after the SetupPolicy of its first policy failed
\* and the SetupPolicy of its second policy succeeded.
C18_SecondPolicyAfterFailure ==
    \E t \in SyncTasks :
        /\ pc[t] = "validate"
        /\ local[t].errs = {1}
        /\ local[t].called = {1, 2}
        /\ Holds(rules, WantedRule(local[t].policies[2]))

\* C19 (full sync always reports success): SyncPolicies returns no error,
\* whatever the table and the lists are and whichever commands (rule listing,
\* add, delete) the host fails to run during the pass.
C19_FullSyncReportsSuccess == fn.name = "SyncPolicies" => fn.result = 0

\* A SyncPolicies pass has returned during which a command it issued failed.
C19_PassWithFailedCommand ==
    /\ op.name = "SyncPolicies"
    /\ fn.name = "SyncPolicies"
    /\ op.fault # "none"
    /\ \E i \in 1..Len(calls) : ~calls[i].ok

\* C21 (watch stream re-establishment): a watcher task whose stream could not
\* be created does not end while no shutdown has been signalled; it stays able
\* to create the stream and to process what the store delivers.
C21_WatchReestablished == \A t \in Watchers : pc[t] = "done" => ctxDone

\* The periodic task is in a state from which a failed resync leaves it.
PeriodicGoesOn == pc["periodic"] \in {"failed", "select"}

\* C20 (resync loop survives failure): when a full resync of the periodic task
\* fails on listing the store, the task goes back to the select of its loop;
\* it ends only after shutdown has been signalled, and while it waits in the
\* select the timer tick that starts a further full resync can be taken.
C20_ResyncLoopSurvivesFailure ==
    /\ [](pc["periodic"] = "done" => ctxDone)
    /\ []((pc["periodic"] = "select" /\ ~ctxDone) => ENABLED PeriodicTick)
    /\ [][pc["periodic"] = "failed" => PeriodicGoesOn']_vars

\* After a failed resync of the periodic task, and with no shutdown signalled,
\* the next tick has started a further resync.
C20_ResyncAfterFailure ==
    /\ fn.name = "performFullSync"
    /\ fn.arg = "periodic"
    /\ pc["periodic"] = "list"
    /\ ~ctxDone

\* No rule of the table is for the source of policy p.
NoRuleFor(rs, p) == \A i \in 1..Len(rs) : ~ForSource(rs[i], p)

\* The calls include the connection-tracking flush for the source of p.
Flushed(cs, p) ==
    \E i \in 1..Len(cs) : cs[i].cmd = "conntrack" /\ cs[i].src = SrcNetOf[p.ID].str

\* C22 (disabled policy removal): when a disabled policy is reconciled, by the
\* handler of a put notification or by a full sync, afterwards the table has
\* no rule for its source and connection tracking was flushed for that source,
\* whether or not its ProviderID resolves to a provider.
C22_DisabledPolicyRemoval ==
    [][/\ (op'.name = "SetupPolicy" /\ ~op'.policy.Enabled
              => NoRuleFor(rules', op'.policy) /\ Flushed(calls', op'.policy))
       /\ (op'.name = "SyncPolicies" =>
              \A k \in 1..Len(policies) :
                  ~policies[k].Enabled
                      => NoRuleFor(rules', policies[k]) /\ Flushed(calls', policies[k]))]_vars

\* The same for the disabled policies whose ProviderID resolves.
DisabledRemovalWhenResolved ==
    [][/\ (op'.name = "SetupPolicy" /\ ~op'.policy.Enabled /\ Resolves(op'.policy)
              => NoRuleFor(rules', op'.policy) /\ Flushed(calls', op'.policy))
       /\ (op'.name = "SyncPolicies" =>
              \A k \in 1..Len(policies) :
                  ~policies[k].Enabled /\ Resolves(policies[k])
                      => NoRuleFor(rules', policies[k]) /\ Flushed(calls', policies[k]))]_vars

\* The positions of the managed rules of the table that show source token src.
GroupOf(rs, src) ==
    {i \in 1..Len(rs) : InManagedRange(rs[i].prio) /\ SrcToken(rs[i]) = src}

\* C23 (duplicate cleanup keeps the first): for every source with more than
\* one rule in [2000, 2032] in the listing, after cleanupDuplicateRules the
\* first-listed rule of the source is still in the table and its other rules
\* are gone, and every rule that was not such a later duplicate is still there.
C23_DuplicateCleanupKeepsFirst ==
    [][op'.name = "cleanupDuplicateRules" =>
           \A i \in 1..Len(rules) :
               IF i \in GroupOf(rules, SrcToken(rules[i]))
                      /\ i # Least(GroupOf(rules, SrcToken(rules[i])))
               THEN ~Holds(rules', rules[i])
               ELSE Holds(rules', rules[i])]_vars

C25_SourceAllNeverManaged ==
    [][op'.name \in EngineOps =>
           \A i \in 1..Len(rules) :
               SrcToken(rules[i]) = "all" => Holds(rules', rules[i])]_vars

\* C26 (policy validation): Validate returns no error exactly when ID, Name
\* and ProviderID are non-empty and ID is the text of an IPv4 address or of
\* an IPv4 network in CIDR notation.
C26_PolicyValidation ==
    fn.name = "Validate" =>
        (fn.result = 0 <=> /\ fn.arg # ""
                           /\ fn.Name # ""
                           /\ fn.ProviderID # ""
                           /\ parseSourceNet(fn.arg).ok)

\* The well-formed IPv6 texts among the IDs.
IPv6IDs == {"::1", "2001:db8::1", "2001:db8::/32"}

\* What Validate does accept: the IPv6 forms beside the IPv4 ones.
ValidateAcceptsIPv6 ==
    fn.name = "Validate" =>
        (fn.result = 0 <=> /\ fn.arg # ""
                           /\ fn.Name # ""
                           /\ fn.ProviderID # ""
                           /\ (parseSourceNet(fn.arg).ok \/ fn.arg \in IPv6IDs))

CreatesProvider == op'.name = "createProvider" /\ fn'.arg # "" /\ fn'.ones >= 1

\* The store holds a provider named name.
Named(list, name) == \E i \in 1..Len(list) : list[i].ID = name

\* C28 (provider creation by name): when no provider with the request's name
\* exists, createProvider answers 201 and the store then holds a provider
\* whose ID is that name; when one exists it answers 409 and the store is as
\* it was.
C28_ProviderCreationByName ==
    [][CreatesProvider =>
           IF Named(providers, fn'.arg)
           THEN fn'.result = 409 /\ providers' = providers
           ELSE fn'.result = 201 /\ Named(providers', fn'.arg)]_vars

\* The same with "exists" read as the store holding a record under the key
\* of the name.
CreateProviderByKey ==
    [][CreatesProvider =>
           IF GetProvider(providers, fn'.arg) # 0
           THEN fn'.result = 409 /\ providers' = providers
           ELSE fn'.result = 201 /\ Named(providers', fn'.arg)]_vars

\* C29 (manual sync trigger): the step in which triggerSync answers "Sync
\* triggered successfully" performs a full synchronization, which leaves the
\* service's caches equal to the store's lists, or starts one in a task of
\* the service.
C29_ManualSyncTrigger ==
    [][op'.name = "triggerSync" /\ fn'.result = 200 =>
           \/ cache' = [providers |-> providers, policies |-> policies]
           \/ \E t \in SyncTasks : pc[t] # "list" /\ pc'[t] = "list"]_vars

\* Task t is inside an engine call: the handler between SetupPolicy's listing
\* and its write or at RemovePolicy, a sync task inside SyncPolicies.
EngineCallInProgress(t) ==
    IF t = "watchPolicies" THEN pc[t] \in {"cb_apply", "cb_remove"}
    ELSE t \in SyncTasks /\ InSyncPolicies(t)

\* C30 (cache reads run concurrently with reconciliation): no task holds the
\* cache lock while an engine call of that task is in progress, so GetStats
\* can take its read lock during every reconciliation.
C30_CacheReadsConcurrent == cacheMu # "none" => ~EngineCallInProgress(cacheMu)
\* The mutation commands of the last operation that were of kind cmd.
CallsOf(cmd) == {i \in 1..Len(calls) : calls[i].cmd = cmd}

\* C31: in SetupPolicy every rule add that succeeded is followed at once by a
\* connection-tracking flush for the same source network, every delete of a
\* replacement comes before the add, and when only the flush command fails
\* SetupPolicy returns nil.
C31_FlushFollowsRuleChange ==
    op.name = "SetupPolicy" =>
        /\ \A i \in CallsOf("add") :
              calls[i].ok =>
                  /\ i < Len(calls)
                  /\ calls[i + 1].cmd = "conntrack"
                  /\ calls[i + 1].src = calls[i].src
        /\ \A i \in CallsOf("add"), j \in CallsOf("del_from") : j < i
        /\ op.fault = "flush" => fn.result = 0

\* A replacement whose flush command failed: delete, add, flush, nil.
C31_ReplacementWithFailedFlush ==
    /\ op.name = "SetupPolicy"
    /\ op.fault = "flush"
    /\ fn.result = 0
    /\ Len(calls) = 3
    /\ calls[1].cmd = "del_from" /\ calls[1].ok
    /\ calls[2].cmd = "add" /\ calls[2].ok
    /\ calls[3].cmd = "conntrack" /\ ~calls[3].ok

\* The deletes of the last operation that the host ran with success.
DeletesDone == {i \in CallsOf("del_from") : calls[i].ok}

\* C32: removeAllRulesForSource returns after at most 10 rounds, each ending
\* with the one delete that succeeded, also when the listing shows a matching
\* rule after every delete; when the deletes take effect no rule of the
\* source is left on return.
C32_BoundedRemovalLoop ==
    op.name = "removeAllRulesForSource" =>
        /\ Cardinality(DeletesDone) <= maxAttempts
        /\ op.fault = "none" => NoRuleFor(rules, op.policy)

\* The listing showed the rule again after each of ten deletes.
C32_TenRoundsThenReturn ==
    /\ op.name = "removeAllRulesForSource"
    /\ op.fault = "readd"
    /\ Cardinality(DeletesDone) = maxAttempts
    /\ ~NoRuleFor(rules, op.policy)
    /\ fn.result = 0

\* The store holds a policy with this ID.
Stored(id) == \E k \in 1..Len(policies) : policies[k].ID = id

\* The policy with this ID was the last to be deleted from the store and is
\* not in it.
Deleted(id) == ~Stored(id) /\ \E i \in 1..Len(updates) : updates[i].policy.ID = id

\* The managed range holds a rule for the source of the policy with this ID.
ManagedRuleOf(rs, id) == ManagedRulesFor(rs, SrcNetOf[id].ip, SrcNetOf[id].ones) # {}

\* The policies of the store that are enabled and whose provider resolves.
Wanted == {k \in 1..Len(policies) : policies[k].Enabled /\ Resolves(policies[k])}

\* With the store settled, the second of two full syncs in a row returns
\* with no rule of a deleted policy in the managed range.
DeletedRuleGoneAfterTwoSyncs ==
    Ran("SyncPolicies") /\ op.again /\ StoreSettled =>
        \A id \in PolicyIDs : Deleted(id) => ~ManagedRuleOf(rules, id)

\* C33: when a full sync that ran with the store settled has removed the
\* rule of a policy deleted from the store, the rule of every enabled policy
\* of the store whose provider resolves is in the table.
C33_DeletedPolicyCleanup ==
    [][\A id \in PolicyIDs :
          /\ StoreSettled /\ Deleted(id)
          /\ ManagedRuleOf(rules, id) /\ ~ManagedRuleOf(rules', id)
          /\ op'.name = "SyncPolicies"
          => \A k \in Wanted : Holds(rules', WantedRule(policies[k]))]_vars

\* C34: SyncProviders is never at a call of SetupProvider with the engine
\* lock in its own hands, where SetupProvider's m.mu.Lock() cannot return.
C34_SyncProvidersReturns == ~(InSetupLoop /\ mu = Caller)

\* From that place no step of anybody changes the caller's position or frees
\* the lock.
SyncProvidersStaysBlocked ==
    [][InSetupLoop /\ mu = Caller => InSetupLoop' /\ mu' = Caller]_vars

\* Task t is at an acquisition of the cache's lock.
WaitsForCache(t) ==
    \/ t \in SyncTasks /\ pc[t] = "cache"
    \/ t = "watchPolicies" /\ pc[t] = "cb_lock"
    \/ t = "watchProviders" /\ pc[t] = "select" /\ Pending("provider") # {}

\* Task t is at an acquisition of the engine's lock.
WaitsForEngine(t) == t \in SyncTasks /\ pc[t] = "lock"

\* The holder of each lock waits for the other lock.
CyclicWait ==
    \E t \in Tasks, u \in Tasks :
        /\ cacheMu = t /\ WaitsForEngine(t)
        /\ mu = u /\ WaitsForCache(u)

\* C35: the holder of the cache lock and the holder of the engine lock never
\* wait for each other's lock, and whoever acquires the cache lock does not
\* hold the engine lock.
C35_DeadlockFreedom ==
    /\ [](~CyclicWait)
    /\ [][cacheMu' # cacheMu /\ cacheMu' # "none" => mu' # cacheMu']_vars

\* Both locks are taken, by a full sync and by a statistics reader, while the
\* policy handler waits for the cache lock.
C35_BothLocksBusy ==
    /\ mu \in SyncTasks
    /\ cacheMu = "GetStats"
    /\ pc["watchPolicies"] = "cb_lock"

\* List `list` holds policy p as it is.
Lists(list, p) == \E i \in 1..Len(list) : list[i] = p

\* The store holds policy p, every notification has been handled, and the
\* listing of sync task t holds another version of p.
ListedOlder(t, p) ==
    /\ updates = <<>>
    /\ pc["watchPolicies"] = "select"
    /\ Lists(policies, p)
    /\ ~Lists(local[t].policies, p)
    /\ \E i \in 1..Len(local[t].policies) : local[t].policies[i].ID = p.ID

\* The put of p was applied: the cache holds p, the table the rule of p.
Applied(p) == Lists(cache.policies, p) /\ Holds(rules, WantedRule(p))

\* The cache holds the version of p that sync task t listed.
CacheReverted(t, p) ==
    /\ ~Lists(cache.policies, p)
    /\ \E i \in 1..Len(cache.policies) : /\ cache.policies[i].ID = p.ID
                                          /\ Lists(local[t].policies, cache.policies[i])

\* A full sync that listed an older version and has put it into the cache
\* leaves the rule of the applied version in the table in its policy loop.
StaleListingKeepsRule ==
    [][\A t \in SyncTasks, p \in SvcPolicies :
          /\ pc[t] = "setup"
          /\ ListedOlder(t, p) /\ CacheReverted(t, p)
          /\ Holds(rules, WantedRule(p))
          => Holds(rules', WantedRule(p))]_vars

\* C36: a full sync that listed v1 of a policy before the put of v2 was
\* applied to the cache and the table leaves v2 in the cache when it replaces
\* the cache, and the rule of v2 in the table when it reconciles.
C36_NoRevertByStaleListing ==
    [][\A t \in SyncTasks, p \in SvcPolicies :
          /\ pc[t] = "cache" /\ pc'[t] = "lock" /\ ListedOlder(t, p) /\ Applied(p)
                 => Lists(cache'.policies, p)
          /\ pc[t] = "setup" /\ ListedOlder(t, p) /\ CacheReverted(t, p)
                             /\ Holds(rules, WantedRule(p))
                 => Holds(rules', WantedRule(p))]_vars

\* What checkRoutingRuleExists reports for the source of p is a rule of the
\* table whose source is that of p.
ReadsOwnRule(rs, p) ==
    checkRoutingRuleExists(Exec(rs, "none"), SrcNetOf[p.ID]).exists =>
        \E i \in 1..Len(rs) :
            /\ ForSource(rs[i], p)
            /\ rs[i].prio = checkRoutingRuleExists(Exec(rs, "none"), SrcNetOf[p.ID]).priority
            /\ rs[i].table = checkRoutingRuleExists(Exec(rs, "none"), SrcNetOf[p.ID]).table

\* SetupPolicy's enabled branch and RemovePolicy, which begin with
\* checkRoutingRuleExists.
ChecksFirst(o) ==
    o.fault # "show" /\ (o.name = "RemovePolicy" \/ (o.name = "SetupPolicy" /\ o.policy.Enabled))

\* C37: SetupPolicy and RemovePolicy for source S take as S's existing rule
\* only a rule whose source is exactly S, and leave the rules of every other
\* source as they are.
C37_SourceMatchingExact ==
    [][op'.name \in {"SetupPolicy", "RemovePolicy"} =>
           /\ ChecksFirst(op') => ReadsOwnRule(rules, op'.policy)
           /\ OtherSources(rules', op'.policy) = OtherSources(rules, op'.policy)]_vars

\* The deletes of SetupPolicy and RemovePolicy leave the rules of every other
\* source as they are.
DeletesOwnRulesOnly ==
    [][op'.name \in {"SetupPolicy", "RemovePolicy"} =>
           OtherSources(rules', op'.policy) = OtherSources(rules, op'.policy)]_vars

\* The execution of a SyncPolicies pass begun now, no command failing, when
\* its loop over the policies is through and cleanupStaleRules begins.
BeforeStale(order) ==
    setupAll(cleanupDuplicateRules(Exec(rules, "none"), order).e, policies,
             ProviderList, 1)

\* C38: in a SyncPolicies pass the stale cleanup removes the rule of no
\* enabled policy of the list whose provider resolves.
C38_NoCollateralDeletion ==
    \A order \in mapOrders(Exec(rules, "none")), k \in Wanted :
        Holds(BeforeStale(order).rules, WantedRule(policies[k])) =>
            Holds(cleanupStaleRules(BeforeStale(order), policies).e.rules,
                  WantedRule(policies[k]))

\* C39: the priority addRoutingRule passes to the rule add for a policy whose
\* ID passed Validate lies in [2000, 2032].
C39_AddedRuleInManagedRange == fn.name = "addRoutingRule" => InManagedRange(fn.result)

\* The first rule the listing shows for the source of p is a rule of that
\* source, and it points to another table than the provider of p.
WrongTableFound(rs, p) ==
    /\ checkRoutingRuleExists(Exec(rs, "none"), SrcNetOf[p.ID]).exists
    /\ checkRoutingRuleExists(Exec(rs, "none"), SrcNetOf[p.ID]).table # TableOf(p)
    /\ ReadsOwnRule(rs, p)

\* The tables the rules of the source of p point to.
TablesOf(rs, p) == {rs[i].table : i \in {j \in 1..Len(rs) : ForSource(rs[j], p)}}

\* C40: when SetupPolicy finds a rule of source S with the wrong table and
\* the delete command fails, SetupPolicy issues no rule add and S does not
\* have rules pointing to different tables on return.
C40_NoAddOnUndeletedRule ==
    [][/\ op'.name = "SetupPolicy" /\ op'.policy.Enabled /\ op'.fault = "del"
       /\ WrongTableFound(rules, op'.policy)
       => /\ \A i \in 1..Len(calls') : calls'[i].cmd # "add"
          /\ Cardinality(TablesOf(rules', op'.policy))
                 <= Cardinality(TablesOf(rules, op'.policy))]_vars

====
